---------------------------- MODULE Spec2Model ----------------------------
(***************************************************************************)
(* Vision-AI tiling and extraction-quality engine of chromium-screenshots. *)
(*                                                                         *)
(* app/tiling.py             calculate_tile_grid, adjust_element_          *)
(*                           coordinates, adjust_elements_batch,           *)
(*                           apply_vision_preset, calculate_per_tile_wait  *)
(* app/quality_assessment.py assess_extraction_quality                     *)
(* app/screenshot.py         ScreenshotService.capture_tiled               *)
(*                                                                         *)
(* Pure functions are operators; each specification draws the arguments of *)
(* one entry point in Init and applies the entry point in an action.       *)
(* Python's None is the empty tuple <<>> and a supplied value v is <<v>>.  *)
(* A raised exception is a record with a "raised" field.                   *)
(***************************************************************************)
EXTENDS Integers, Sequences, FiniteSets, TLC

VARIABLES
    pc,                 \* position of the caller of the entry point under study
    grid_args,          \* arguments of calculate_tile_grid
    grid_result,        \* what calculate_tile_grid returned or raised
    quality_args,       \* the elements argument of assess_extraction_quality
    quality_result,     \* what assess_extraction_quality returned or raised
    adjust_args,        \* the rectangles and the tile of a coordinate adjustment
    adjust_result,      \* what the adjustment returned
    VISION_AI_PRESETS,  \* the module-level preset table of app/tiling.py
    preset_args,        \* arguments of apply_vision_preset
    preset_result,      \* what apply_vision_preset returned or raised
    cap_request,        \* the TiledScreenshotRequest of capture_tiled
    cap,                \* the locals of capture_tiled and its position
    page_log,           \* the calls capture_tiled made on the context and the page
    cap_outcome,        \* what capture_tiled returned or raised
    heap,               \* the dicts of a run that shares them, by identity
    caller_refs,        \* identities of the dicts the calls returned to the caller
    last_call,          \* the latest call on the heap: arguments, result, content
    environ,            \* os.environ when app/quality_assessment.py is loaded
    config_file,        \* vision_model_config.json beside the module, if any
    _MODEL_CONFIG,      \* what _load_model_config returned at load
    VISION_MODEL_LIMITS,          \* module-level table of max dimensions
    VISION_DEFAULT_MODEL,         \* module-level default target model
    VISION_TILE_OVERLAP_PERCENT,  \* module-level tile overlap percentage
    hints_args,         \* arguments of generate_vision_hints
    hints_result,       \* what generate_vision_hints returned or raised
    wait_args,          \* arguments of calculate_per_tile_wait
    wait_result,        \* what calculate_per_tile_wait returned or raised
    _playwright,        \* ScreenshotService._playwright
    _browser,           \* ScreenshotService._browser
    _lock,              \* the task that holds ScreenshotService._lock, if any
    playwright_starts,  \* how often async_playwright().start() has returned
    chromium_launches,  \* how often chromium.launch() has returned
    tasks,              \* the calls running on the service, each with its position
    shot_request,       \* the ScreenshotRequest of capture
    shot,               \* the position of capture and _get_page and the context they hold
    shot_outcome        \* what capture returned or raised

gridVars == <<grid_args, grid_result>>

qualityVars == <<quality_args, quality_result>>

adjustVars == <<adjust_args, adjust_result>>

presetVars == <<VISION_AI_PRESETS, preset_args, preset_result>>

captureVars == <<cap_request, cap, page_log, cap_outcome>>

objectVars == <<heap, caller_refs, last_call>>

configVars == <<environ, config_file, _MODEL_CONFIG, VISION_MODEL_LIMITS,
                VISION_DEFAULT_MODEL, VISION_TILE_OVERLAP_PERCENT>>

hintsVars == <<configVars, hints_args, hints_result>>

waitVars == <<wait_args, wait_result>>

serviceVars == <<_playwright, _browser, _lock, playwright_starts, chromium_launches, tasks>>

shotVars == <<shot_request, shot, shot_outcome>>

vars == <<pc, gridVars, qualityVars, adjustVars, presetVars, captureVars, objectVars,
          hintsVars,
          waitVars,
          serviceVars,
          shotVars>>

----------------------------------------------------------------------------
(* Python values *)

None == <<>>

Some(v) == <<v>>

IsNone(o) == o = None

Val(o) == o[1]

Optional(S) == {None} \cup {Some(v) : v \in S}

Min(a, b) == IF a <= b THEN a ELSE b

Max(a, b) == IF a >= b THEN a ELSE b

NoResult == [pending |-> TRUE]

Raised(kind, what) == [raised |-> kind, what |-> what]

IsRaised(r) == "raised" \in DOMAIN r

Returned(v) == [value |-> v]

IsReturned(r) == "value" \in DOMAIN r

----------------------------------------------------------------------------
(* app/tiling.py: calculate_tile_grid *)

\* bounds of the argument box
MaxPage == 6

MaxViewport == 3

MaxOverlap == 3

\* viewport_width when the caller passes none
DefaultViewportWidth == 1200

\* overlap when the caller passes none
DefaultOverlap == 50

TileBounds(index, row, column, x, y, width, height) ==
    [index |-> index, row |-> row, column |-> column,
     x |-> x, y |-> y, width |-> width, height |-> height]

\* the first failing check of _validate_dimensions, None when all pass
ValidateNoNegativeOverlap(page_width, page_height, viewport_width, viewport_height, overlap) ==
    IF page_width <= 0 THEN Some("page_width")
    ELSE IF page_height <= 0 THEN Some("page_height")
    ELSE IF viewport_width <= 0 THEN Some("viewport_width")
    ELSE IF viewport_height <= 0 THEN Some("viewport_height")
    ELSE IF overlap >= viewport_width THEN Some("overlap_width")
    ELSE IF overlap >= viewport_height THEN Some("overlap_height")
    ELSE None

\* a mutant that lets a page of no height through
ValidateNoPageHeight(page_width, page_height, viewport_width, viewport_height, overlap) ==
    IF page_width <= 0 THEN Some("page_width")
    ELSE IF viewport_width <= 0 THEN Some("viewport_width")
    ELSE IF viewport_height <= 0 THEN Some("viewport_height")
    ELSE IF overlap < 0 THEN Some("overlap_negative")
    ELSE IF overlap >= viewport_width THEN Some("overlap_width")
    ELSE IF overlap >= viewport_height THEN Some("overlap_height")
    ELSE None

_validate_dimensions(page_width, page_height, viewport_width, viewport_height, overlap) ==
    IF page_width <= 0 THEN Some("page_width")
    ELSE IF page_height <= 0 THEN Some("page_height")
    ELSE IF viewport_width <= 0 THEN Some("viewport_width")
    ELSE IF viewport_height <= 0 THEN Some("viewport_height")
    ELSE IF overlap < 0 THEN Some("overlap_negative")
    ELSE IF overlap >= viewport_width THEN Some("overlap_width")
    ELSE IF overlap >= viewport_height THEN Some("overlap_height")
    ELSE None

\* step_x, step_y: tile size minus overlap
StepNoOverlap(viewport, overlap) == viewport

Step(viewport, overlap) == viewport - overlap

\* tile_width, tile_height: the viewport, clipped at the page's far edge
ClipUnclipped(viewport, page, pos) == viewport

Clip(viewport, page, pos) == Min(viewport, page - pos)

\* "this tile reached the page edge"
ReachedEdge(pos, dim, page) == pos + dim >= page

\* the inner while loop of one row; s holds x, col, tile_index, tiles and the
\* tile_height the last iteration computed
RECURSIVE ColumnLoop(_, _, _, _)
ColumnLoop(a, y, row, s) ==
    IF ~(s.x < a.page_width) THEN s
    ELSE LET tile_width == Clip(a.viewport_width, a.page_width, s.x)
             tile_height == Clip(a.viewport_height, a.page_height, y)
             t == [s EXCEPT !.tiles = Append(@, TileBounds(s.tile_index, row, s.col,
                                                           s.x, y, tile_width, tile_height)),
                            !.tile_index = @ + 1,
                            !.tile_height = tile_height]
         IN IF ReachedEdge(s.x, tile_width, a.page_width) THEN t
            ELSE ColumnLoop(a, y, row, [t EXCEPT !.x = @ + a.step_x, !.col = @ + 1])

\* the outer while loop; r holds y, row, tile_index, tiles; and a mutant whose
\* row break tests the last tile's width in place of its height
RECURSIVE RowLoopBreaksOnWidth(_, _)
RowLoopBreaksOnWidth(a, r) ==
    IF ~(r.y < a.page_height) THEN r.tiles
    ELSE LET s == ColumnLoop(a, r.y, r.row,
                             [x |-> 0, col |-> 0, tile_index |-> r.tile_index,
                              tiles |-> r.tiles, tile_height |-> 0])
         IN IF ReachedEdge(r.y, s.tiles[Len(s.tiles)].width, a.page_height) THEN s.tiles
            ELSE RowLoopBreaksOnWidth(a, [y |-> r.y + a.step_y, row |-> r.row + 1,
                                          tile_index |-> s.tile_index, tiles |-> s.tiles])

RECURSIVE RowLoop(_, _)
RowLoop(a, r) ==
    IF ~(r.y < a.page_height) THEN r.tiles
    ELSE LET s == ColumnLoop(a, r.y, r.row,
                             [x |-> 0, col |-> 0, tile_index |-> r.tile_index,
                              tiles |-> r.tiles, tile_height |-> 0])
         IN IF ReachedEdge(r.y, s.tile_height, a.page_height) THEN s.tiles
            ELSE RowLoop(a, [y |-> r.y + a.step_y, row |-> r.row + 1,
                             tile_index |-> s.tile_index, tiles |-> s.tiles])

\* the values calculate_tile_grid works with once its defaults are filled in
EffectiveArgs(args) ==
    LET viewport_width == IF IsNone(args.viewport_width) THEN DefaultViewportWidth
                          ELSE Val(args.viewport_width)
        page_width == IF IsNone(args.page_width) THEN viewport_width
                      ELSE Val(args.page_width)
        overlap == IF IsNone(args.overlap) THEN DefaultOverlap ELSE Val(args.overlap)
    IN [page_width |-> page_width, page_height |-> args.page_height,
        viewport_width |-> viewport_width, viewport_height |-> args.viewport_height,
        overlap |-> overlap]

calculate_tile_grid(args) ==
    LET e == EffectiveArgs(args)
        bad == _validate_dimensions(e.page_width, e.page_height, e.viewport_width,
                                    e.viewport_height, e.overlap)
        a == [page_width |-> e.page_width, page_height |-> e.page_height,
              viewport_width |-> e.viewport_width, viewport_height |-> e.viewport_height,
              step_x |-> Step(e.viewport_width, e.overlap),
              step_y |-> Step(e.viewport_height, e.overlap)]
    IN IF ~IsNone(bad) THEN Raised("ValueError", Val(bad))
       ELSE Returned(RowLoop(a, [y |-> 0, row |-> 0, tile_index |-> 0, tiles |-> <<>>]))

GridArgs(page_height, viewport_height, overlap, page_width, viewport_width) ==
    [page_height |-> page_height, viewport_height |-> viewport_height,
     overlap |-> overlap, page_width |-> page_width, viewport_width |-> viewport_width]

\* the calls the documentation and the tests show
GridExamples ==
    { GridArgs(3000, 800, Some(50), None, None),
      GridArgs(500, 800, Some(50), None, None),
      GridArgs(1500, 800, None, None, None),
      GridArgs(2000, 800, Some(800), None, None),
      GridArgs(2000, 800, Some(900), None, None),
      GridArgs(1000, 800, Some(50), Some(2400), Some(1200)),
      GridArgs(1000, 800, Some(50), Some(2400), None) }

GridInputs ==
    { GridArgs(ph, vh, ov, pw, vw) :
        ph \in 0..MaxPage, vh \in 0..MaxViewport,
        ov \in Optional(-1..MaxOverlap),
        pw \in Optional(0..MaxPage), vw \in Optional(0..MaxViewport) }
    \cup GridExamples

----------------------------------------------------------------------------
(* Strings: a str is the tuple of its characters, so that lower() and      *)
(* sorted() are computed and not assumed.                                  *)

Digits == <<"0", "1", "2", "3", "4", "5", "6", "7", "8", "9">>

UpperCase == <<"A", "B", "C", "D", "E", "F", "G", "H", "I", "J", "K", "L", "M",
               "N", "O", "P", "Q", "R", "S", "T", "U", "V", "W", "X", "Y", "Z">>

LowerCase == <<"a", "b", "c", "d", "e", "f", "g", "h", "i", "j", "k", "l", "m",
               "n", "o", "p", "q", "r", "s", "t", "u", "v", "w", "x", "y", "z">>

IndexIn(seq, c) == CHOOSE i \in DOMAIN seq : seq[i] = c

IsIn(seq, c) == \E i \in DOMAIN seq : seq[i] = c

\* the code point of a character
ord(c) ==
    IF IsIn(Digits, c) THEN 47 + IndexIn(Digits, c)
    ELSE IF IsIn(UpperCase, c) THEN 64 + IndexIn(UpperCase, c)
    ELSE IF IsIn(LowerCase, c) THEN 96 + IndexIn(LowerCase, c)
    ELSE IF c = " " THEN 32
    ELSE IF c = "," THEN 44
    ELSE 0

\* the lower-case letter of each upper-case one
LowerOfUpper == [i \in DOMAIN UpperCase |-> LowerCase[i]]

UpperSet == {UpperCase[i] : i \in DOMAIN UpperCase}

LowerChar(c) == IF c \in UpperSet THEN LowerOfUpper[IndexIn(UpperCase, c)] ELSE c

\* str.lower(), a mutant that leaves the case alone, and the real one
lowerIdentity(s) == s

lower(s) == [i \in 1..Len(s) |-> LowerChar(s[i])]

\* str < str: lexicographic on code points
RECURSIVE StrLess(_, _)
StrLess(a, b) ==
    IF b = <<>> THEN FALSE
    ELSE IF a = <<>> THEN TRUE
    ELSE IF ord(Head(a)) # ord(Head(b)) THEN ord(Head(a)) < ord(Head(b))
    ELSE StrLess(Tail(a), Tail(b))

\* sorted(set of str)
RECURSIVE sorted(_)
sorted(S) ==
    IF S = {} THEN <<>>
    ELSE LET m == CHOOSE a \in S : \A b \in S \ {a} : StrLess(a, b)
         IN <<m>> \o sorted(S \ {m})

\* a text of n characters
Text(n) == [i \in 1..n |-> "x"]

----------------------------------------------------------------------------
(* app/quality_assessment.py: assess_extraction_quality *)

\* bound on the number of elements in a collection
MaxElements == 22

THRESHOLD_POOR == 4

THRESHOLD_LOW == 20

THRESHOLD_GOOD == 21

THRESHOLD_TAG_DIVERSITY == 3

\* THRESHOLD_HIDDEN_RATIO = 0.5, as a fraction
THRESHOLD_HIDDEN_RATIO == [num |-> 1, den |-> 2]

THRESHOLD_MIN_TEXT_LENGTH == 10

HEADING_TAGS == {<<"h", "1">>, <<"h", "2">>, <<"h", "3">>,
                 <<"h", "4">>, <<"h", "5">>, <<"h", "6">>}

\* a / b of two ints: the float is kept as the exact fraction. Comparing it
\* with 0.5 or 10 gives the float comparison's answer for every count below
\* 2^50, the rounding error of the division being far smaller than 1/count.
Ratio(a, b) == [num |-> a, den |-> b]

RatioGreaterOrEqual(r, t) == r.num * t.den >= t.num * r.den

RatioGreater(r, t) == r.num * t.den > t.num * r.den

RatioLessOrEqualInt(r, k) == r.num <= k * r.den

RatioLessInt(r, k) == r.num < k * r.den

\* value or ""
OrEmpty(v) == IF IsNone(v) THEN <<>> ELSE v

QualityWarning(code, params) == [code |-> code, params |-> params]

DomElement(tag_name, text, is_visible) ==
    [tag_name |-> tag_name, text |-> text, is_visible |-> is_visible]

\* the state of the single pass before its first element
PassStart ==
    [unique_tags_set |-> {}, tag_distribution |-> <<>>, has_heading |-> FALSE,
     heading_count |-> 0, visible_count |-> 0, total_text_length |-> 0,
     min_text_length |-> None, max_text_length |-> 0]

\* a mutant that counts a heading only while none has been seen
PassStepCountsFirstHeading(m, element) ==
    LET tag_lower == lower(OrEmpty(element.tag_name))
        text_len == Len(OrEmpty(element.text))
        heading == tag_lower \in HEADING_TAGS
    IN [unique_tags_set |-> m.unique_tags_set \cup {tag_lower},
        tag_distribution |->
            IF tag_lower \in DOMAIN m.tag_distribution
            THEN [m.tag_distribution EXCEPT ![tag_lower] = @ + 1]
            ELSE m.tag_distribution @@ (tag_lower :> 1),
        has_heading |-> m.has_heading \/ heading,
        heading_count |-> IF heading /\ ~m.has_heading THEN m.heading_count + 1
                          ELSE m.heading_count,
        visible_count |-> IF element.is_visible THEN m.visible_count + 1
                          ELSE m.visible_count,
        total_text_length |-> m.total_text_length + text_len,
        min_text_length |->
            IF IsNone(m.min_text_length) \/ text_len < Val(m.min_text_length)
            THEN Some(text_len) ELSE m.min_text_length,
        max_text_length |-> Max(m.max_text_length, text_len)]

\* one iteration of "for element in elements"; min_text_length None is inf
PassStep(m, element) ==
    LET tag_lower == lower(OrEmpty(element.tag_name))
        text_len == Len(OrEmpty(element.text))
        heading == tag_lower \in HEADING_TAGS
    IN [unique_tags_set |-> m.unique_tags_set \cup {tag_lower},
        tag_distribution |->
            IF tag_lower \in DOMAIN m.tag_distribution
            THEN [m.tag_distribution EXCEPT ![tag_lower] = @ + 1]
            ELSE m.tag_distribution @@ (tag_lower :> 1),
        has_heading |-> m.has_heading \/ heading,
        heading_count |-> IF heading THEN m.heading_count + 1 ELSE m.heading_count,
        visible_count |-> IF element.is_visible THEN m.visible_count + 1
                          ELSE m.visible_count,
        total_text_length |-> m.total_text_length + text_len,
        min_text_length |->
            IF IsNone(m.min_text_length) \/ text_len < Val(m.min_text_length)
            THEN Some(text_len) ELSE m.min_text_length,
        max_text_length |-> Max(m.max_text_length, text_len)]

RECURSIVE Pass(_, _)
Pass(m, elements) ==
    IF elements = <<>> THEN m ELSE Pass(PassStep(m, Head(elements)), Tail(elements))

\* "if element_count == 0"
IsEmpty(element_count) == element_count = 0

EmptyMetrics ==
    [element_count |-> 0, visible_count |-> 0, hidden_count |-> 0,
     heading_count |-> 0, unique_tag_count |-> 0,
     visible_ratio |-> Ratio(0, 1), hidden_ratio |-> Ratio(0, 1),
     unique_tags |-> <<>>, has_headings |-> FALSE, tag_distribution |-> <<>>,
     total_text_length |-> 0, avg_text_length |-> Ratio(0, 1),
     min_text_length |-> 0, max_text_length |-> 0]

\* the four independent checks, in the order the code makes them
LowTagDiversity(tag_diversity, element_count) ==
    tag_diversity < THRESHOLD_TAG_DIVERSITY /\ element_count >= THRESHOLD_GOOD

NoHeadings(has_heading, element_count) ==
    ~has_heading /\ element_count >= THRESHOLD_LOW \div 2

ManyHiddenInclusive(hidden_ratio) == RatioGreaterOrEqual(hidden_ratio, THRESHOLD_HIDDEN_RATIO)

ManyHidden(hidden_ratio) == RatioGreater(hidden_ratio, THRESHOLD_HIDDEN_RATIO)

MinimalText(avg_text_length) == RatioLessInt(avg_text_length, THRESHOLD_MIN_TEXT_LENGTH)

\* "Determine Quality Level"
DetermineQualityNoHeadingCheck(element_count, tag_diversity, has_heading) ==
    IF element_count <= THRESHOLD_POOR THEN "POOR"
    ELSE IF element_count <= THRESHOLD_LOW THEN "LOW"
    ELSE IF tag_diversity >= THRESHOLD_TAG_DIVERSITY THEN "GOOD"
    ELSE "LOW"

DetermineQuality(element_count, tag_diversity, has_heading) ==
    IF element_count <= THRESHOLD_POOR THEN "POOR"
    ELSE IF element_count <= THRESHOLD_LOW THEN "LOW"
    ELSE IF tag_diversity >= THRESHOLD_TAG_DIVERSITY /\ has_heading THEN "GOOD"
    ELSE "LOW"

QualityAssessmentResult(quality, warnings, metrics) ==
    Returned([quality |-> quality, warnings |-> warnings, metrics |-> metrics])

\* assess_extraction_quality once elements is a list
AssessList(elements) ==
    LET element_count == Len(elements)
        w0 == <<>>
    IN IF IsEmpty(element_count)
       THEN QualityAssessmentResult("EMPTY",
                Append(w0, QualityWarning("NO_ELEMENTS", <<>>)), EmptyMetrics)
       ELSE
       LET w1 == IF element_count <= THRESHOLD_POOR
                 THEN Append(w0, QualityWarning("LOW_ELEMENT_COUNT", <<element_count>>))
                 ELSE w0
           m == Pass(PassStart, elements)
           min_text_length == IF IsNone(m.min_text_length) THEN 0
                              ELSE Val(m.min_text_length)
           hidden_count == element_count - m.visible_count
           tag_diversity == Cardinality(m.unique_tags_set)
       IN IF element_count = 0 THEN Raised("ZeroDivisionError", "visible_ratio")
          ELSE
          LET visible_ratio == Ratio(m.visible_count, element_count)
              hidden_ratio == Ratio(hidden_count, element_count)
              avg_text_length == Ratio(m.total_text_length, element_count)
              w2 == IF LowTagDiversity(tag_diversity, element_count)
                    THEN Append(w1, QualityWarning("LOW_TAG_DIVERSITY",
                                                   <<tag_diversity, element_count>>))
                    ELSE w1
              w3 == IF NoHeadings(m.has_heading, element_count)
                    THEN Append(w2, QualityWarning("NO_HEADINGS", <<>>))
                    ELSE w2
              w4 == IF ManyHidden(hidden_ratio)
                    THEN Append(w3, QualityWarning("MANY_HIDDEN",
                                                   <<hidden_count, element_count>>))
                    ELSE w3
              w5 == IF MinimalText(avg_text_length)
                    THEN Append(w4, QualityWarning("MINIMAL_TEXT", <<avg_text_length>>))
                    ELSE w4
              quality == DetermineQuality(element_count, tag_diversity, m.has_heading)
              metrics ==
                  [element_count |-> element_count,
                   visible_count |-> m.visible_count,
                   hidden_count |-> hidden_count,
                   heading_count |-> m.heading_count,
                   unique_tag_count |-> tag_diversity,
                   visible_ratio |-> visible_ratio,
                   hidden_ratio |-> hidden_ratio,
                   unique_tags |-> sorted(m.unique_tags_set),
                   has_headings |-> m.has_heading,
                   tag_distribution |-> m.tag_distribution,
                   total_text_length |-> m.total_text_length,
                   avg_text_length |-> avg_text_length,
                   min_text_length |-> min_text_length,
                   max_text_length |-> m.max_text_length]
          IN QualityAssessmentResult(quality, w5, metrics)

\* a mutant without the None check: len(None) raises
AssessWithoutNoneCheck(elements) ==
    IF IsNone(elements) THEN Raised("TypeError", "len") ELSE AssessList(Val(elements))

\* elements is None, or Some(list of DomElement)
assess_extraction_quality(elements) ==
    AssessList(IF IsNone(elements) THEN <<>> ELSE Val(elements))

\* Tag sequences the collections cycle through
TagPatterns ==
    { << <<"d", "i", "v">> >>,
      << <<"D", "I", "V">>, <<"d", "i", "v">>, <<"D", "i", "v">> >>,
      << <<"d", "i", "v">>, <<"p">> >>,
      << <<"d", "i", "v">>, <<"p">>, <<"s", "p", "a", "n">> >>,
      << <<"H", "1">>, <<"d", "i", "v">>, <<"P">> >>,
      << <<"h", "2">>, <<"d", "i", "v">> >>,
      << <<"h", "6">> >>,
      << <<"h", "7">>, <<"h">>, <<>>, <<"h", "1", "0">> >> }

\* the tag of the last element: the pattern's own (None), or a late heading,
\* or a late third tag
LastTags == {None, Some(<<"h", "3">>), Some(<<"a">>)}

\* <<characters in every text, extra characters in the first text>>, around
\* THRESHOLD_MIN_TEXT_LENGTH
TextShapes == {<<0, 0>>, <<9, 1>>, <<10, 0>>, <<10, 1>>}

\* n elements: tags cycle through pattern (the last one may be replaced), the
\* first hidden ones are not visible, every text has text_len characters and
\* the first one extra more
MakeElements(n, pattern, last, hidden, text_len, extra) ==
    [i \in 1..n |->
        DomElement(IF i = n /\ ~IsNone(last) THEN Val(last)
                   ELSE pattern[((i - 1) % Len(pattern)) + 1],
                   Text(IF i = 1 THEN text_len + extra ELSE text_len),
                   i > hidden)]

\* numbers of hidden elements around THRESHOLD_HIDDEN_RATIO of n
HiddenCounts(n) == {0, n \div 2, Min(n, (n \div 2) + 1), n}

QualityInputsOfSize(n) ==
    { Some(MakeElements(n, pattern, last, hidden, shape[1], shape[2])) :
        pattern \in TagPatterns, last \in LastTags, hidden \in HiddenCounts(n),
        shape \in TextShapes }

QualityInputs ==
    {None} \cup UNION {QualityInputsOfSize(n) : n \in 0..MaxElements}

----------------------------------------------------------------------------
(* Numbers of element rectangles.  A rectangle's x, y, width and height    *)
(* are Python floats (or ints): binary fractions.  A number is a sign and  *)
(* the set of the exponents of the 1 bits of its magnitude, so 5 is        *)
(* {0, 2} and 0.5 is {-1}; the sum of two numbers is the exact sum rounded *)
(* to the nearest float, ties to even, as float addition gives it.  Ints   *)
(* below 2^53 are floats, and their sums are exact either way.             *)

\* bits in a float's mantissa (binary64)
MantissaBits == 53

\* the bit positions an int literal of the model may use
IntBits == 0..30

RECURSIVE Pow2(_)
Pow2(e) == IF e = 0 THEN 1 ELSE 2 * Pow2(e - 1)

\* the 1 bits of n * 2^shift, for an int n >= 0
Bits(n, shift) == {e + shift : e \in {k \in IntBits : (n \div Pow2(k)) % 2 = 1}}

Num(neg, bits) == [neg |-> neg /\ bits # {}, bits |-> bits]

FromInt(n) == IF n < 0 THEN Num(TRUE, Bits(-n, 0)) ELSE Num(FALSE, Bits(n, 0))

TopBit(A) == CHOOSE e \in A : \A f \in A : f <= e

\* A + B on magnitudes: add without carry, then add the carries
RECURSIVE BitAdd(_, _)
BitAdd(A, B) ==
    IF B = {} THEN A
    ELSE BitAdd((A \cup B) \ (A \cap B), {e + 1 : e \in A \cap B})

\* A - B on magnitudes, for A >= B: subtract without borrow, then the borrows
RECURSIVE BitSub(_, _)
BitSub(A, B) ==
    IF B = {} THEN A
    ELSE BitSub((A \cup B) \ (A \cap B), {e + 1 : e \in B \ A})

MagLess(A, B) ==
    /\ A # B
    /\ TopBit((A \ B) \cup (B \ A)) \in B

\* the exact sum of two numbers
ExactAdd(a, b) ==
    IF a.neg = b.neg THEN Num(a.neg, BitAdd(a.bits, b.bits))
    ELSE IF MagLess(a.bits, b.bits) THEN Num(b.neg, BitSub(b.bits, a.bits))
    ELSE Num(a.neg, BitSub(a.bits, b.bits))

\* round to MantissaBits significant bits, to nearest, ties to even
RoundToFloat(a) ==
    IF a.bits = {} THEN a
    ELSE LET low == TopBit(a.bits) - MantissaBits + 1   \* the last kept bit
             kept == {e \in a.bits : e >= low}
             rest == {e \in a.bits : e < low}
             up == /\ (low - 1) \in rest
                   /\ (rest # {low - 1} \/ low \in kept)
         IN Num(a.neg, IF up THEN BitAdd(kept, {low}) ELSE kept)

\* Python's a + b and a - b
FloatAdd(a, b) == RoundToFloat(ExactAdd(a, b))

FloatSub(a, b) == FloatAdd(a, Num(~b.neg, b.bits))

\* the exact product of two magnitudes: B shifted by every 1 bit of A, summed
RECURSIVE MulBits(_, _)
MulBits(A, B) ==
    IF A = {} THEN {}
    ELSE LET e == TopBit(A)
         IN BitAdd({e + f : f \in B}, MulBits(A \ {e}, B))

\* Python's a * b
FloatMul(a, b) ==
    RoundToFloat(Num(a.neg # b.neg,
                     IF Cardinality(a.bits) <= Cardinality(b.bits)
                     THEN MulBits(a.bits, b.bits) ELSE MulBits(b.bits, a.bits)))

LowBit(A) == CHOOSE e \in A : \A f \in A : e <= f

RECURSIVE SumPow2(_)
SumPow2(S) == IF S = {} THEN 0 ELSE LET e == TopBit(S) IN Pow2(e) + SumPow2(S \ {e})

\* long division in base 65536: digit k of the dividend A is brought down to
\* the remainder r, and the digits of the quotient are produced down to the
\* digit LastDigit; a remainder left after it is one bit below
DigitBits == 16

LastDigit == -5

RECURSIVE DivDigits(_, _, _, _)
DivDigits(A, divisor, k, r) ==
    IF k < LastDigit THEN (IF r = 0 THEN {} ELSE {DigitBits * k})
    ELSE LET digit == SumPow2({e - DigitBits * k :
                                  e \in {f \in A : f >= DigitBits * k /\ f < DigitBits * (k + 1)}})
             current == r * Pow2(DigitBits) + digit
         IN Bits(current \div divisor, DigitBits * k)
               \cup DivDigits(A, divisor, k - 1, current % divisor)

\* Python's a / b for b # 0, for a divisor of at most 15 significant bits
\* (every divisor of this program is an image dimension, 100.0 or a power of
\* ten)
FloatDiv(a, b) ==
    IF a.bits = {} THEN a
    ELSE LET divisor == SumPow2({e - LowBit(b.bits) : e \in b.bits})
             A == {e - LowBit(a.bits) : e \in a.bits}
             quotient == DivDigits(A, divisor, TopBit(A) \div DigitBits, 0)
         IN RoundToFloat(Num(a.neg # b.neg,
                             {e + LowBit(a.bits) - LowBit(b.bits) : e \in quotient}))

FloatLess(a, b) ==
    IF a.neg # b.neg THEN a.neg
    ELSE IF a.neg THEN MagLess(b.bits, a.bits)
    ELSE MagLess(a.bits, b.bits)

\* Python's int(a): the digits before the point
Trunc(a) ==
    LET whole == SumPow2({e \in a.bits : e >= 0})
    IN IF a.neg THEN -whole ELSE whole

\* 0.1 as a float: 0x1.999999999999ap-4
Tenth == Num(FALSE, Bits(26843545, -28) \cup Bits(161061274, -56))

----------------------------------------------------------------------------
(* app/tiling.py: adjust_element_coordinates, adjust_elements_batch *)

\* bound on the length of a batch
MaxBatch == 2

Rect(x, y, width, height) == [x |-> x, y |-> y, width |-> width, height |-> height]

\* a mutant that adds the tile's y offset to both coordinates
AdjustWithYOffsetOnly(element_rect, tile_bounds) ==
    Rect(FloatAdd(element_rect.x, FromInt(tile_bounds.y)),
         FloatAdd(element_rect.y, FromInt(tile_bounds.y)),
         element_rect.width,
         element_rect.height)

adjust_element_coordinates(element_rect, tile_bounds) ==
    Rect(FloatAdd(element_rect.x, FromInt(tile_bounds.x)),
         FloatAdd(element_rect.y, FromInt(tile_bounds.y)),
         element_rect.width,
         element_rect.height)

adjust_elements_batch(elements, tile_bounds) ==
    [i \in 1..Len(elements) |-> adjust_element_coordinates(elements[i], tile_bounds)]

\* tile-relative rectangles: whole pixels as the tests use them, half and
\* 1/64 pixels as a layout engine reports them, a tenth of a pixel as a
\* scaled page gives it, and an element that starts left of and above the tile
AdjustRects ==
    { Rect(FromInt(100), FromInt(200), FromInt(50), FromInt(30)),
      Rect(FromInt(50), FromInt(100), FromInt(20), FromInt(10)),
      Rect(FromInt(0), FromInt(0), FromInt(1200), FromInt(800)),
      Rect(Num(FALSE, Bits(17, -1)), Num(FALSE, Bits(7901, -6)),
           Num(FALSE, Bits(301, -1)), FromInt(80)),
      Rect(FromInt(-20), Num(TRUE, Bits(21, -1)), FromInt(40), FromInt(25)),
      Rect(FromInt(8), Tenth, FromInt(100), Tenth),
      Rect(Num(TRUE, Tenth.bits), FromInt(16), FromInt(100), FromInt(50)) }

\* tiles of the documented grids
AdjustTiles ==
    { TileBounds(0, 0, 0, 0, 0, 1200, 800),
      TileBounds(1, 1, 0, 0, 750, 1200, 800),
      TileBounds(1, 0, 1, 1150, 0, 1200, 800),
      TileBounds(5, 1, 2, 2300, 1500, 100, 250) }

RECURSIVE ListsUpTo(_, _)
ListsUpTo(S, n) ==
    IF n = 0 THEN {<<>>}
    ELSE LET shorter == ListsUpTo(S, n - 1)
         IN shorter \cup {Append(l, v) : l \in shorter, v \in S}

----------------------------------------------------------------------------
(* app/tiling.py: VISION_AI_PRESETS, apply_vision_preset *)

Bundle(tile_width, tile_height, overlap) ==
    [tile_width |-> tile_width, tile_height |-> tile_height, overlap |-> overlap]

claude == <<"c", "l", "a", "u", "d", "e">>

gemini == <<"g", "e", "m", "i", "n", "i">>

gpt4v == <<"g", "p", "t", "4", "v">>

\* the module-level table as the module defines it
PresetTable ==
    (claude :> Bundle(1568, 1568, 50)) @@
    (gemini :> Bundle(3072, 3072, 100)) @@
    (gpt4v :> Bundle(2048, 2048, 75))

\* separator.join(a list of str)
RECURSIVE join(_, _)
join(separator, names) ==
    IF names = <<>> THEN <<>>
    ELSE IF Len(names) = 1 THEN names[1]
    ELSE names[1] \o separator \o join(separator, Tail(names))

\* "if <field> is not None: preset[<field>] = <field>", and a mutant that
\* tests the value's truth instead
OverrideIfTruthy(value, preset_value) ==
    IF ~IsNone(value) /\ Val(value) # 0 THEN Val(value) ELSE preset_value

Override(value, preset_value) ==
    IF ~IsNone(value) THEN Val(value) ELSE preset_value

\* the message of the ValueError: its fixed text and the two values put into it
UnknownPresetMessage(preset_name, valid_presets) ==
    [text |-> "Unknown Vision AI preset '{preset_name}'. Valid options: {valid_presets}",
     preset_name |-> preset_name, valid_presets |-> valid_presets]

\* presets is the value of VISION_AI_PRESETS at the call
apply_vision_preset(presets, preset_name, tile_width, tile_height, overlap) ==
    LET preset_name_lower == lower(preset_name)
    IN IF preset_name_lower \notin DOMAIN presets
       THEN Raised("ValueError",
                   UnknownPresetMessage(preset_name,
                                        join(<<",", " ">>, sorted(DOMAIN presets))))
       ELSE LET preset == presets[preset_name_lower]
            IN Returned(Bundle(Override(tile_width, preset.tile_width),
                               Override(tile_height, preset.tile_height),
                               Override(overlap, preset.overlap)))

UpperChar(c) == IF IsIn(LowerCase, c) THEN UpperCase[IndexIn(LowerCase, c)] ELSE c

\* every way of writing name in upper and lower case
RECURSIVE Casings(_)
Casings(name) ==
    IF name = <<>> THEN {<<>>}
    ELSE {<<c>> \o rest : c \in {Head(name), UpperChar(Head(name))},
                          rest \in Casings(Tail(name))}

\* names that are no preset: a model of the quality module, a prefix, a name
\* with a space, the empty name, the name of the tests
UnknownNames ==
    { <<"q", "w", "e", "n">>, <<"c", "l", "a", "u", "d">>,
      <<"G", "P", "T", "4">>, <<"c", "l", "a", "u", "d", "e", " ">>, <<>>,
      <<"u", "n", "k", "n", "o", "w", "n", "_", "m", "o", "d", "e", "l">> }

PresetNames == UNION {Casings(name) : name \in DOMAIN PresetTable} \cup UnknownNames

PresetInputs ==
    [preset_name : PresetNames,
     tile_width : {None, Some(1000), Some(1568)},
     tile_height : {None, Some(800)},
     overlap : {None, Some(0), Some(50)}]

----------------------------------------------------------------------------
(* app/tiling.py: calculate_per_tile_wait *)

\* min_wait when the caller passes none
DefaultMinWait == 50

\* a mutant that shares the wait out and forgets the minimum
PerTileWaitWithoutMinimum(wait_for_timeout, tile_count, min_wait) ==
    IF wait_for_timeout <= 0 THEN min_wait
    ELSE wait_for_timeout \div tile_count

calculate_per_tile_wait(wait_for_timeout, tile_count, min_wait) ==
    IF wait_for_timeout <= 0 THEN min_wait
    ELSE Max(min_wait, wait_for_timeout \div tile_count)

\* the call: min_wait takes its default when not passed, and // raises for a
\* tile_count of 0
PerTileWaitCall(args) ==
    LET min_wait == IF IsNone(args.min_wait) THEN DefaultMinWait ELSE Val(args.min_wait)
    IN IF args.wait_for_timeout > 0 /\ args.tile_count = 0
       THEN Raised("ZeroDivisionError", "tile_count")
       ELSE Returned(calculate_per_tile_wait(args.wait_for_timeout, args.tile_count, min_wait))

MaxWait == 12

MaxTileCount == 4

MaxMinWait == 3

WaitArgs(wait_for_timeout, tile_count, min_wait) ==
    [wait_for_timeout |-> wait_for_timeout, tile_count |-> tile_count, min_wait |-> min_wait]

\* the calls of the docstring
WaitExamples ==
    { WaitArgs(1000, 4, None), WaitArgs(100, 4, None), WaitArgs(0, 4, None) }

WaitInputs ==
    { WaitArgs(total, count, minimum) :
        total \in -1..MaxWait, count \in 0..MaxTileCount,
        minimum \in Optional(0..MaxMinWait) }
    \cup WaitExamples

----------------------------------------------------------------------------
(* app/screenshot.py: ScreenshotService.capture_tiled.  The browser is the  *)
(* environment: each stretch of awaits on it is one step, which succeeds or *)
(* raises; page_log records the calls that reach the page.                 *)

\* TiledScreenshotRequest defaults, which capture_tiled takes for "not given"
DefaultTileSize == 1568

DefaultRequestOverlap == 50

TiledScreenshotRequest(width, height, overlap, ceiling, model, wait, dom) ==
    [tile_width |-> width, tile_height |-> height, overlap |-> overlap,
     max_tile_count |-> ceiling, target_vision_model |-> model,
     wait_for_timeout |-> wait, extract_dom |-> dom]

\* the model validator of TiledScreenshotRequest and its field ranges
RequestIsValid(request) ==
    /\ request.tile_width > 0 /\ request.tile_width <= 4096
    /\ request.tile_height > 0 /\ request.tile_height <= 4096
    /\ request.overlap >= 0 /\ request.overlap <= 500
    /\ request.max_tile_count >= 1 /\ request.max_tile_count <= 1000
    /\ request.wait_for_timeout >= 0 /\ request.wait_for_timeout <= 30000
    /\ request.overlap < request.tile_width
    /\ request.overlap < request.tile_height

\* the fields pydantic records in model_fields_set: those the caller passed
TileFields == {"tile_width", "tile_height", "overlap"}

FieldDefaults ==
    [tile_width |-> DefaultTileSize, tile_height |-> DefaultTileSize,
     overlap |-> DefaultRequestOverlap]

\* a field whose value is not the default was passed; one whose value is the
\* default was passed with that value, or left out
MayBeFieldsSet(request, fields) ==
    \A f \in TileFields : request[f] # FieldDefaults[f] => f \in fields

WithFieldsSet(request, fields) == request @@ [model_fields_set |-> fields]

ValidRequests ==
    { r \in { TiledScreenshotRequest(tw, th, ov, mx, model, wait, dom) :
                tw \in {DefaultTileSize, 800}, th \in {DefaultTileSize, 600},
                ov \in {DefaultRequestOverlap, 0}, mx \in {1, 5, 20},
                model \in {None, Some(claude), Some(<<"G", "e", "m", "i", "n", "i">>),
                           Some(<<"q", "w", "e", "n">>)},
                wait \in {0, 1000}, dom \in BOOLEAN } :
        RequestIsValid(r) }

CaptureRequests ==
    UNION { { WithFieldsSet(r, fields) :
                fields \in { f \in SUBSET TileFields : MayBeFieldsSet(r, f) } } :
            r \in ValidRequests }

\* <<scrollWidth, scrollHeight>> the loaded page may report
PageSizes == {<<800, 600>>, <<1200, 1800>>, <<2400, 1000>>, <<1600, 1100>>}

\* what extractDomElements may return for one tile: elements with their
\* tile-relative rect, and the element count
DomExtractions ==
    { [elements |-> <<>>, element_count |-> 0],
      [elements |-> [i \in 1..5 |->
                        [rect |-> Rect(FromInt(100 * i), Num(FALSE, Bits(17, -1)),
                                       FromInt(50), FromInt(30))]],
       element_count |-> 5] }

PageCall(op, a, b) == [op |-> op, a |-> a, b |-> b]

\* the locals of capture_tiled before its first step
CaptureStart ==
    [pc |-> "start", effective_tile_width |-> 0, effective_tile_height |-> 0,
     effective_overlap |-> 0, applied_preset |-> None, context_open |-> FALSE,
     page_width |-> 0, page_height |-> 0, tile_bounds_list |-> <<>>,
     per_tile_wait |-> 0, tiles |-> <<>>]

\* the preset, when the request names a model: a default-valued field counts
\* as not given
PresetForRequest(presets, request) ==
    apply_vision_preset(
        presets, Val(request.target_vision_model),
        IF request.tile_width # DefaultTileSize THEN Some(request.tile_width) ELSE None,
        IF request.tile_height # DefaultTileSize THEN Some(request.tile_height) ELSE None,
        IF request.overlap # DefaultRequestOverlap THEN Some(request.overlap) ELSE None)

\* "if request.target_vision_model": None and "" are both false
NamesModel(request) ==
    ~IsNone(request.target_vision_model) /\ Val(request.target_vision_model) # <<>>

\* "if len(tile_bounds_list) > request.max_tile_count", and a mutant that
\* never rejects
ExceedsMaxNever(tile_count, max_tile_count) == FALSE

ExceedsMax(tile_count, max_tile_count) == tile_count > max_tile_count

HTTPException(status_code, needed, max_tile_count) ==
    Raised("HTTPException", [status_code |-> status_code, needed |-> needed,
                             max_tile_count |-> max_tile_count])

\* the enrichment of one extracted element with its tile
EnrichElement(element, bounds) ==
    IF "rect" \in DOMAIN element
    THEN [tile_index |-> bounds.index,
          tile_relative_rect |-> element.rect,
          rect |-> [element.rect EXCEPT !.x = FloatAdd(@, FromInt(bounds.x)),
                                        !.y = FloatAdd(@, FromInt(bounds.y))]]
    ELSE [tile_index |-> bounds.index]

\* dom_extraction of one tile after enrichment and the per-tile warning
EnrichExtraction(extraction, bounds) ==
    LET enriched == [extraction EXCEPT
                        !.elements = [i \in DOMAIN @ |-> EnrichElement(@[i], bounds)]]
    IN IF extraction.element_count < 5
       THEN [elements |-> enriched.elements, element_count |-> enriched.element_count,
             warnings |-> <<[code |-> "low_element_count_per_tile",
                             tile |-> bounds.index,
                             element_count |-> extraction.element_count]>>]
       ELSE enriched

Tile(bounds, image, dom_extraction) ==
    [index |-> bounds.index, row |-> bounds.row, column |-> bounds.column,
     bounds |-> bounds, image |-> image, dom_extraction |-> dom_extraction]

\* max(f(t) for t in tiles) if tiles else 0
MaxOf(values) == IF values = {} THEN 0 ELSE CHOOSE v \in values : \A w \in values : w <= v

\* a mutant that takes the largest row and column for the grid's size
TileConfigGridOfMaxima(c, tiles) ==
    [tile_width |-> c.effective_tile_width, tile_height |-> c.effective_tile_height,
     overlap |-> c.effective_overlap, total_tiles |-> Len(tiles),
     grid |-> [rows |-> MaxOf({tiles[i].row : i \in DOMAIN tiles}),
               columns |-> MaxOf({tiles[i].column : i \in DOMAIN tiles})],
     applied_preset |-> c.applied_preset]

TileConfig(c, tiles) ==
    [tile_width |-> c.effective_tile_width, tile_height |-> c.effective_tile_height,
     overlap |-> c.effective_overlap, total_tiles |-> Len(tiles),
     grid |-> [rows |-> MaxOf({tiles[i].row : i \in DOMAIN tiles}) + 1,
               columns |-> MaxOf({tiles[i].column : i \in DOMAIN tiles}) + 1],
     applied_preset |-> c.applied_preset]

TiledScreenshotResponse(c) ==
    Returned([success |-> TRUE,
              full_page_dimensions |-> [width |-> c.page_width, height |-> c.page_height],
              tile_config |-> TileConfig(c, c.tiles),
              tiles |-> c.tiles,
              coordinate_mapping |-> [type |-> "tile_offset",
                                      full_page_width |-> c.page_width,
                                      full_page_height |-> c.page_height]])

----------------------------------------------------------------------------
(* app/quality_assessment.py: the configuration read when the module is     *)
(* loaded: _load_model_config, _get_model_limit, _get_default_model,        *)
(* _get_tile_overlap and the module-level tables they fill.                 *)

qwen_vl_max == <<"q", "w", "e", "n", "-", "v", "l", "-", "m", "a", "x">>

\* str.upper()
upper(s) == [i \in 1..Len(s) |-> UpperChar(s[i])]

\* str.replace(old, new) for single characters
replace(s, old, new) == [i \in 1..Len(s) |-> IF s[i] = old THEN new ELSE s[i]]

RECURSIVE DigitsValue(_)
DigitsValue(s) ==
    IF s = <<>> THEN 0 ELSE 10 * DigitsValue(SubSeq(s, 1, Len(s) - 1)) + IndexIn(Digits, s[Len(s)]) - 1

AllDigits(s) == s # <<>> /\ \A i \in 1..Len(s) : IsIn(Digits, s[i])

\* int(str) for decimal notation: an optional sign and digits; anything else
\* is a ValueError
ParseInt(s) ==
    LET signed == s # <<>> /\ s[1] \in {"-", "+"}
        digits == IF signed THEN Tail(s) ELSE s
    IN IF ~AllDigits(digits) THEN Raised("ValueError", [int |-> s])
       ELSE Returned(IF signed /\ s[1] = "-" THEN -DigitsValue(digits) ELSE DigitsValue(digits))

RECURSIVE Pow10(_)
Pow10(n) == IF n = 0 THEN 1 ELSE 10 * Pow10(n - 1)

\* float(str) for decimal notation: an optional sign, digits, and at most one
\* point with digits on at least one side; anything else is a ValueError
ParseFloat(s) ==
    LET signed == s # <<>> /\ s[1] \in {"-", "+"}
        body == IF signed THEN Tail(s) ELSE s
        points == {i \in 1..Len(body) : body[i] = "."}
        whole == IF points = {} THEN body ELSE SubSeq(body, 1, (CHOOSE i \in points : TRUE) - 1)
        fraction == IF points = {} THEN <<>>
                    ELSE SubSeq(body, (CHOOSE i \in points : TRUE) + 1, Len(body))
        wellFormed == /\ Cardinality(points) <= 1
                      /\ whole \o fraction # <<>>
                      /\ \A i \in 1..Len(whole) : IsIn(Digits, whole[i])
                      /\ \A i \in 1..Len(fraction) : IsIn(Digits, fraction[i])
        magnitude == FloatDiv(FromInt(DigitsValue(whole \o fraction)),
                              FromInt(Pow10(Len(fraction))))
    IN IF ~wellFormed THEN Raised("ValueError", [float |-> s])
       ELSE Returned(Num(signed /\ s[1] = "-", magnitude.bits))

\* os.getenv(key): None when the variable is not set
getenv(env, key) == IF key \in DOMAIN env THEN Some(env[key]) ELSE None

\* a Python value is false in a test when it is None or empty
Falsy(optional) == IsNone(optional) \/ DOMAIN Val(optional) = {}

\* _load_model_config: None without a file and for a file that is no JSON
_load_model_config(file) ==
    IF IsNone(file) THEN None
    ELSE IF ~Val(file).parsable THEN None
    ELSE Some(Val(file).json)

VISION_ == <<"V", "I", "S", "I", "O", "N", "_">>

_MAX_DIMENSION == <<"_", "M", "A", "X", "_", "D", "I", "M", "E", "N", "S", "I", "O", "N">>

VISION_DEFAULT_MODEL_KEY == <<"V", "I", "S", "I", "O", "N", "_", "D", "E", "F", "A", "U", "L", "T", "_", "M", "O", "D", "E", "L">>

VISION_TILE_OVERLAP_PERCENT_KEY == <<"V", "I", "S", "I", "O", "N", "_", "T", "I", "L", "E", "_", "O", "V", "E", "R", "L", "A", "P", "_", "P", "E", "R", "C", "E", "N", "T">>

\* f"VISION_{model.upper().replace('-', '_')}_MAX_DIMENSION"
EnvKey(model) == VISION_ \o replace(upper(model), "-", "_") \o _MAX_DIMENSION

\* "_MODEL_CONFIG and <section> in _MODEL_CONFIG"
HasSection(config, section) == ~Falsy(config) /\ section \in DOMAIN Val(config)

\* the order in which the sources are consulted, and a mutant that consults
\* the file before the environment
GetModelLimitFileFirst(env, config, model, default) ==
    LET env_value == getenv(env, EnvKey(model))
        model_data == IF HasSection(config, "models") /\ model \in DOMAIN Val(config).models
                      THEN Val(config).models[model] ELSE <<>>
    IN IF "max_dimension" \in DOMAIN model_data THEN Returned(model_data.max_dimension)
       ELSE IF ~IsNone(env_value) THEN ParseInt(Val(env_value))
       ELSE Returned(default)

_get_model_limit(env, config, model, default) ==
    LET env_value == getenv(env, EnvKey(model))
        model_data == IF HasSection(config, "models") /\ model \in DOMAIN Val(config).models
                      THEN Val(config).models[model] ELSE <<>>
    IN IF ~IsNone(env_value) THEN ParseInt(Val(env_value))
       ELSE IF "max_dimension" \in DOMAIN model_data THEN Returned(model_data.max_dimension)
       ELSE Returned(default)

\* float("inf") is None here: no limit
_get_model_constraints_from_config(config, model) ==
    LET model_data == IF HasSection(config, "models") /\ model \in DOMAIN Val(config).models
                      THEN Val(config).models[model] ELSE <<>>
    IN [max_pixels |-> IF "max_pixels" \in DOMAIN model_data
                       THEN Some(model_data.max_pixels) ELSE None,
        max_aspect_ratio |-> IF "max_aspect_ratio" \in DOMAIN model_data
                             THEN Some(model_data.max_aspect_ratio) ELSE None]

_get_default_model(env, config) ==
    LET env_value == getenv(env, VISION_DEFAULT_MODEL_KEY)
    IN IF ~IsNone(env_value) /\ Val(env_value) # <<>> THEN Returned(Val(env_value))
       ELSE IF HasSection(config, "defaults")
       THEN Returned(IF "target_model" \in DOMAIN Val(config).defaults
                     THEN Val(config).defaults.target_model ELSE claude)
       ELSE Returned(claude)

\* the built-in tile overlap percentage
DefaultTileOverlapPercent == 15

_get_tile_overlap(env, config) ==
    LET env_value == getenv(env, VISION_TILE_OVERLAP_PERCENT_KEY)
    IN IF ~IsNone(env_value) /\ Val(env_value) # <<>> THEN ParseFloat(Val(env_value))
       ELSE IF HasSection(config, "defaults")
       THEN Returned(FromInt(IF "tile_overlap_percent" \in DOMAIN Val(config).defaults
                             THEN Val(config).defaults.tile_overlap_percent
                             ELSE DefaultTileOverlapPercent))
       ELSE Returned(FromInt(DefaultTileOverlapPercent))

\* the built-in max dimensions
DefaultModelLimits ==
    (claude :> 1568) @@ (gemini :> 3072) @@ (gpt4v :> 2048) @@ (qwen_vl_max :> 4096)

ModelNames == <<claude, gemini, gpt4v, qwen_vl_max>>

\* the module-level statements in their order; the first exception ends the
\* import
LoadQualityAssessment(env, file) ==
    LET config == _load_model_config(file)
        limits == [i \in DOMAIN ModelNames |->
                      _get_model_limit(env, config, ModelNames[i],
                                       DefaultModelLimits[ModelNames[i]])]
        failed == {i \in DOMAIN ModelNames : IsRaised(limits[i])}
        default_model == _get_default_model(env, config)
        tile_overlap == _get_tile_overlap(env, config)
    IN IF failed # {}
       THEN limits[CHOOSE i \in failed : \A j \in failed : i <= j]
       ELSE IF IsRaised(tile_overlap) THEN tile_overlap
       ELSE Returned([_MODEL_CONFIG |-> config,
                      VISION_MODEL_LIMITS |->
                          [model \in {ModelNames[i] : i \in DOMAIN ModelNames} |->
                              limits[CHOOSE i \in DOMAIN ModelNames : ModelNames[i] = model].value],
                      VISION_DEFAULT_MODEL |-> default_model.value,
                      VISION_TILE_OVERLAP_PERCENT |-> tile_overlap.value])

\* one variable of the environment, or none
EnvEntry(key, value) == IF IsNone(value) THEN <<>> ELSE (key :> Val(value))

\* vision_model_config.json: a file that is no JSON, one that sets everything
\* this module reads, and one with a "defaults" section that sets neither
ConfigFiles ==
    { None,
      Some([parsable |-> FALSE]),
      Some([parsable |-> TRUE,
            json |-> [models |-> (claude :> [max_dimension |-> 1000]) @@
                                 (gemini :> [max_pixels |-> 1000000, max_aspect_ratio |-> 2]),
                      defaults |-> [target_model |-> gpt4v, tile_overlap_percent |-> 30]]]),
      Some([parsable |-> TRUE, json |-> [defaults |-> [comment |-> "none"]]]) }

\* environments of a process that loads the module
ConfigEnvironments ==
    { EnvEntry(EnvKey(claude), c) @@ EnvEntry(EnvKey(qwen_vl_max), q) @@
      EnvEntry(VISION_DEFAULT_MODEL_KEY, d) @@ EnvEntry(VISION_TILE_OVERLAP_PERCENT_KEY, o) :
        c \in {None, Some(<<"2", "0", "0", "0">>), Some(<<>>)},
        q \in {None, Some(<<"8", "1", "9", "2">>)},
        d \in {None, Some(gemini), Some(<<>>)},
        o \in {None, Some(<<"7">>), Some(<<"1", "2", ".", "5">>), Some(<<>>)} }

----------------------------------------------------------------------------
(* app/quality_assessment.py: generate_vision_hints and its helpers.  The   *)
(* module-level tables are passed in as the call finds them.                *)

\* max_pixels and max_aspect_ratio of each model
VISION_MODEL_CONSTRAINTS ==
    (claude :> [max_pixels |-> 1568 * 1568, max_aspect_ratio |-> FromInt(4)]) @@
    (gemini :> [max_pixels |-> 3072 * 3072, max_aspect_ratio |-> FromInt(5)]) @@
    (gpt4v :> [max_pixels |-> 2048 * 2048, max_aspect_ratio |-> FromInt(4)]) @@
    (qwen_vl_max :> [max_pixels |-> 4096 * 4096, max_aspect_ratio |-> FromInt(6)])

\* a // b of Python, for b # 0
FloorDiv(a, b) == IF b > 0 THEN a \div b ELSE (-a) \div (-b)

\* Python's truth of an Optional[int]
Truthy(optional) == ~IsNone(optional) /\ Val(optional) # 0

\* a mutant that returns the fraction lost, not the percentage
ResizeImpactAsFraction(max_dimension, model_limit) ==
    IF max_dimension <= model_limit THEN FromInt(0)
    ELSE FloatDiv(FromInt(max_dimension - model_limit), FromInt(max_dimension))

_calculate_resize_impact(max_dimension, model_limit) ==
    IF max_dimension <= model_limit THEN FromInt(0)
    ELSE FloatMul(FloatDiv(FromInt(max_dimension - model_limit), FromInt(max_dimension)),
                  FromInt(100))

_calculate_recommended_dimensions(width, height, target_limit) ==
    LET max_dim == Max(width, height)
        scale == FloatDiv(FromInt(target_limit), FromInt(max_dim))
    IN IF max_dim <= target_limit THEN <<None, None>>
       ELSE <<Some(Trunc(FloatMul(FromInt(width), scale))),
              Some(Trunc(FloatMul(FromInt(height), scale)))>>

\* the reasons of _check_model_compatibility: the text and the values put in
DimensionReason(max_dimension, model, limit) ==
    [text |-> "max dimension {max_dimension}px exceeds {model} limit of {limit}px",
     constraint |-> "max_dimension", model |-> model,
     offending |-> max_dimension, limiting |-> limit]

PixelsReason(total_pixels, model, max_pixels) ==
    [text |-> "total pixels ({total_pixels:,}) exceeds {model} max_pixels ({int(max_pixels):,})",
     constraint |-> "max_pixels", model |-> model,
     offending |-> total_pixels, limiting |-> max_pixels]

AspectReason(aspect_ratio, model, max_aspect) ==
    [text |-> "aspect ratio ({aspect_ratio:.2f}) exceeds {model} max ({max_aspect:.1f})",
     constraint |-> "max_aspect_ratio", model |-> model,
     offending |-> aspect_ratio, limiting |-> max_aspect]

\* "if max_dimension > limit", and a mutant that rejects at the limit
ExceedsLimitInclusive(max_dimension, limit) == max_dimension >= limit

ExceedsLimit(max_dimension, limit) == max_dimension > limit

\* returns <<is_compatible, reason>>
_check_model_compatibility(limits, width, height, model) ==
    LET max_dimension == Max(width, height)
        limit == IF model \in DOMAIN limits THEN limits[model] ELSE 0
        known == model \in DOMAIN VISION_MODEL_CONSTRAINTS
        total_pixels == width * height
        aspect_ratio == IF Min(width, height) > 0
                        THEN FloatDiv(FromInt(Max(width, height)), FromInt(Min(width, height)))
                        ELSE FromInt(1)
    IN IF ExceedsLimit(max_dimension, limit)
       THEN <<FALSE, Some(DimensionReason(max_dimension, model, limit))>>
       ELSE IF known /\ total_pixels > VISION_MODEL_CONSTRAINTS[model].max_pixels
       THEN <<FALSE, Some(PixelsReason(total_pixels, model,
                                       VISION_MODEL_CONSTRAINTS[model].max_pixels))>>
       ELSE IF known /\ FloatLess(VISION_MODEL_CONSTRAINTS[model].max_aspect_ratio, aspect_ratio)
       THEN <<FALSE, Some(AspectReason(aspect_ratio, model,
                                       VISION_MODEL_CONSTRAINTS[model].max_aspect_ratio))>>
       ELSE <<TRUE, None>>

\* the names generate_vision_hints gives the models in tiling_reason
ReasonNames ==
    (claude :> "Claude") @@ (gemini :> "Gemini") @@ (gpt4v :> "GPT-4V") @@
    (qwen_vl_max :> "Qwen-VL")

\* the field constraints of VisionAIHints that a value can break
FieldBroken(h, field) ==
    CASE field = "image_width" -> h.image_width <= 0
      [] field = "image_height" -> h.image_height <= 0
      [] field = "image_size_bytes" -> h.image_size_bytes < 0
      [] field = "document_width" -> ~IsNone(h.document_width) /\ Val(h.document_width) <= 0
      [] field = "document_height" -> ~IsNone(h.document_height) /\ Val(h.document_height) <= 0
      [] field = "estimated_resize_factor" ->
             \/ FloatLess(h.estimated_resize_factor, FromInt(0))
             \/ FloatLess(FromInt(1), h.estimated_resize_factor)
      [] field = "coordinate_accuracy" ->
             \/ FloatLess(h.coordinate_accuracy, FromInt(0))
             \/ FloatLess(FromInt(1), h.coordinate_accuracy)
      [] field = "recommended_width" ->
             ~IsNone(h.recommended_width) /\ Val(h.recommended_width) <= 0
      [] field = "recommended_height" ->
             ~IsNone(h.recommended_height) /\ Val(h.recommended_height) <= 0
      [] field = "suggested_tile_count" -> h.suggested_tile_count < 1
      [] field = "tile_overlap_percent" ->
             \/ FloatLess(h.tile_overlap_percent, FromInt(0))
             \/ FloatLess(FromInt(50), h.tile_overlap_percent)

ConstrainedFields ==
    {"image_width", "image_height", "image_size_bytes", "document_width",
     "document_height", "estimated_resize_factor", "coordinate_accuracy",
     "recommended_width", "recommended_height", "suggested_tile_count",
     "tile_overlap_percent"}

VisionAIHintsViolations(h) == {field \in ConstrainedFields : FieldBroken(h, field)}

\* VisionAIHints(**fields): the model or its ValidationError
VisionAIHints(h) ==
    IF VisionAIHintsViolations(h) = {} THEN Returned(h)
    ELSE Raised("ValidationError", VisionAIHintsViolations(h))

\* "document_width if document_width else image_width", and a mutant that
\* never looks at the document
TilingDimensionOfImage(document_dimension, image_dimension) == image_dimension

TilingDimension(document_dimension, image_dimension) ==
    IF Truthy(document_dimension) THEN Val(document_dimension) ELSE image_dimension

\* "target_model if target_model in VISION_MODEL_LIMITS else
\* VISION_DEFAULT_MODEL", and a mutant that ignores the caller's model
EffectiveTargetDefaultOnly(limits, default_model, target_model) == default_model

EffectiveTarget(limits, default_model, target_model) ==
    IF ~IsNone(target_model) /\ Val(target_model) \in DOMAIN limits
    THEN Val(target_model) ELSE default_model

\* VISION_MODEL_LIMITS.get(effective_target, VISION_MODEL_LIMITS["claude"])
TargetLimit(limits, effective_target) ==
    IF effective_target \in DOMAIN limits THEN limits[effective_target] ELSE limits[claude]

\* coordinate_accuracy beside estimated_resize_factor, and a mutant that
\* always reports full accuracy
CoordinateAccuracyFull(estimated_resize_factor) == FromInt(1)

CoordinateAccuracy(estimated_resize_factor) == estimated_resize_factor

\* the tiling fields when the target is exceeded, or the ZeroDivisionError
TilingRecommendation(limits, overlap_percent, a, compatible, effective_target, target_limit) ==
    LET tiling_width == TilingDimension(a.document_width, a.image_width)
        tiling_height == TilingDimension(a.document_height, a.image_height)
        overlap_factor == FloatSub(FromInt(1), FloatDiv(overlap_percent, FromInt(100)))
        effective_tile_dim == Trunc(FloatMul(FromInt(target_limit), overlap_factor))
        tiles_x == Max(1, FloorDiv(tiling_width + effective_tile_dim - 1, effective_tile_dim))
        tiles_y == Max(1, FloorDiv(tiling_height + effective_tile_dim - 1, effective_tile_dim))
        exceeded_models == SelectSeq(ModelNames, LAMBDA model : ~compatible[model])
    IN IF effective_tile_dim = 0 THEN Raised("ZeroDivisionError", "effective_tile_dim")
       ELSE Returned(
          [tiling_recommended |-> TRUE,
           suggested_tile_count |-> tiles_x * tiles_y,
           suggested_tile_size |->
               Some([width |-> Min(target_limit, FloorDiv(tiling_width + tiles_x - 1, tiles_x)),
                     height |-> Min(target_limit, FloorDiv(tiling_height + tiles_y - 1, tiles_y))]),
           tiling_reason |->
               Some([text |-> IF exceeded_models # <<>>
                              THEN "The {dimension_info} exceeds limits for: {models_str}. Recommended {tiles_x}x{tiles_y} grid ({suggested_tile_count} tiles) with {VISION_TILE_OVERLAP_PERCENT:.0f}% overlap for {effective_target}."
                              ELSE "The {dimension_info} exceeds {effective_target} limit ({target_limit}px). Recommended {tiles_x}x{tiles_y} grid ({suggested_tile_count} tiles) with {VISION_TILE_OVERLAP_PERCENT:.0f}% overlap.",
                     dimension_info |->
                         [of |-> IF Truthy(a.document_width) /\ Truthy(a.document_height)
                                 THEN "document size" ELSE "image size",
                          width |-> tiling_width, height |-> tiling_height],
                     exceeded_models |->
                         [i \in DOMAIN exceeded_models |->
                             [name |-> ReasonNames[exceeded_models[i]],
                              limit |-> limits[exceeded_models[i]]]],
                     tiles_x |-> tiles_x,
                     tiles_y |-> tiles_y,
                     suggested_tile_count |-> tiles_x * tiles_y,
                     overlap_percent |-> overlap_percent,
                     effective_target |-> effective_target,
                     target_limit |-> target_limit])])

NoTiling ==
    [tiling_recommended |-> FALSE, suggested_tile_count |-> 1,
     suggested_tile_size |-> None, tiling_reason |-> None]

\* a is the record of the arguments; limits, default_model and overlap_percent
\* are VISION_MODEL_LIMITS, VISION_DEFAULT_MODEL and VISION_TILE_OVERLAP_PERCENT
generate_vision_hints(limits, default_model, overlap_percent, a) ==
    LET tiling_width == TilingDimension(a.document_width, a.image_width)
        tiling_height == TilingDimension(a.document_height, a.image_height)
        max_dimension == Max(a.image_width, a.image_height)
        max_tiling_dimension == Max(tiling_width, tiling_height)
        compat == [model \in DOMAIN DefaultModelLimits |->
                      _check_model_compatibility(limits, a.image_width, a.image_height, model)]
        compatible == [model \in DOMAIN compat |-> compat[model][1]]
        effective_target == EffectiveTarget(limits, default_model, a.target_model)
        target_limit == TargetLimit(limits, effective_target)
        estimated_resize_factor ==
            IF max_dimension <= target_limit THEN FromInt(1)
            ELSE FloatDiv(FromInt(target_limit), FromInt(max_dimension))
        coordinate_accuracy ==
            IF max_dimension <= target_limit THEN FromInt(1)
            ELSE CoordinateAccuracy(estimated_resize_factor)
        recommended ==
            IF max_dimension <= target_limit THEN <<None, None>>
            ELSE _calculate_recommended_dimensions(a.image_width, a.image_height, target_limit)
        target_exceeded == max_tiling_dimension > target_limit
        tiling == IF target_exceeded
                  THEN TilingRecommendation(limits, overlap_percent, a, compatible,
                                            effective_target, target_limit)
                  ELSE Returned(NoTiling)
    IN IF IsRaised(tiling) THEN tiling
       ELSE VisionAIHints(
          [image_width |-> a.image_width,
           image_height |-> a.image_height,
           image_size_bytes |-> a.image_size_bytes,
           document_width |-> a.document_width,
           document_height |-> a.document_height,
           claude_compatible |-> compatible[claude],
           gemini_compatible |-> compatible[gemini],
           gpt4v_compatible |-> compatible[gpt4v],
           qwen_compatible |-> compatible[qwen_vl_max],
           estimated_resize_factor |-> estimated_resize_factor,
           coordinate_accuracy |-> coordinate_accuracy,
           resize_impact_claude |-> _calculate_resize_impact(max_dimension, limits[claude]),
           resize_impact_gemini |-> _calculate_resize_impact(max_dimension, limits[gemini]),
           resize_impact_gpt4v |-> _calculate_resize_impact(max_dimension, limits[gpt4v]),
           resize_impact_qwen |-> _calculate_resize_impact(max_dimension, limits[qwen_vl_max]),
           recommended_width |-> recommended[1],
           recommended_height |-> recommended[2],
           tiling_recommended |-> tiling.value.tiling_recommended,
           suggested_tile_count |-> tiling.value.suggested_tile_count,
           suggested_tile_size |-> tiling.value.suggested_tile_size,
           tile_overlap_percent |-> overlap_percent,
           tiling_reason |-> tiling.value.tiling_reason])

\* image sizes, with the sizes at and next to the limits, thin images and
\* images whose sides do not scale to whole pixels
HintsImages ==
    { <<800, 600>>, <<1568, 1568>>, <<1569, 1000>>, <<1920, 1080>>, <<3000, 2000>>,
      <<2000, 1>>, <<2000, 1001>>, <<1500, 300>>, <<1200, 300>>, <<3500, 500>>,
      <<1800, 1800>>, <<4096, 4096>>, <<5000, 5000>> }

\* <<document_width, document_height>> of a full-page capture, or none
HintsDocuments == { <<None, None>>, <<Some(1200), Some(5000)>>, <<Some(2500), None>> }

HintsTargets ==
    { None, Some(gemini), Some(qwen_vl_max), Some(<<"C", "l", "a", "u", "d", "e">>) }

HintsInputs ==
    { [image_width |-> image[1], image_height |-> image[2], image_size_bytes |-> 1024,
       target_model |-> target, document_width |-> document[1],
       document_height |-> document[2]] :
        image \in HintsImages, target \in HintsTargets, document \in HintsDocuments }

\* environments of a process that asks for hints: at most one of the three
\* variables set, or a raised claude limit beside an unknown default model or
\* beside an overlap
HintsEnvironments ==
    { env \in { EnvEntry(EnvKey(claude), c) @@ EnvEntry(VISION_DEFAULT_MODEL_KEY, d) @@
                EnvEntry(VISION_TILE_OVERLAP_PERCENT_KEY, o) :
                  c \in {None, Some(<<"2", "0", "0", "0">>), Some(<<"5", "0", "0", "0">>)},
                  d \in {None, Some(gemini), Some(<<"b", "o", "g", "u", "s">>)},
                  o \in {None, Some(<<"7">>), Some(<<"1", "0", "0">>)} } :
        \/ Cardinality(DOMAIN env) <= 1
        \/ env = (EnvKey(claude) :> <<"5", "0", "0", "0">>) @@ (VISION_DEFAULT_MODEL_KEY :> <<"b", "o", "g", "u", "s">>)
        \/ env = (EnvKey(claude) :> <<"2", "0", "0", "0">>) @@ (VISION_TILE_OVERLAP_PERCENT_KEY :> <<"7">>) }

----------------------------------------------------------------------------
(* Object identity in app/tiling.py: the dicts of VISION_AI_PRESETS, the    *)
(* caller's rectangles and every dict a call returns are objects of one     *)
(* heap; heap[id] is the content of the dict with identity id.              *)

\* bound on the dicts the calls of one run create
MaxAllocated == 2

\* identity of the dict VISION_AI_PRESETS holds under each key
PresetIds == (claude :> 1) @@ (gemini :> 2) @@ (gpt4v :> 3)

\* the rectangles the caller passes in
CallerRects ==
    << Rect(FromInt(100), FromInt(200), FromInt(50), FromInt(30)),
       Rect(Num(FALSE, Bits(17, -1)), FromInt(16), FromInt(100), FromInt(50)) >>

InitialHeap == <<PresetTable[claude], PresetTable[gemini], PresetTable[gpt4v]>> \o CallerRects

CallerRectIds == (Len(InitialHeap) - Len(CallerRects) + 1)..Len(InitialHeap)

\* VISION_AI_PRESETS as the heap h holds it
TableOf(h) == [name \in DOMAIN PresetIds |-> h[PresetIds[name]]]

\* dict.copy(): a new dict with the content of h[id]; and a mutant that hands
\* out the dict itself
DictCopyAliased(h, id) == [heap |-> h, ref |-> id]

DictCopy(h, id) == [heap |-> Append(h, h[id]), ref |-> Len(h) + 1]

\* a dict display {...}: a new dict
DictDisplay(h, content) == [heap |-> Append(h, content), ref |-> Len(h) + 1]

\* apply_vision_preset on the heap: the result is the identity of the dict
\* it returns
ApplyPresetOnHeap(h, preset_name, tile_width, tile_height, overlap) ==
    LET preset_name_lower == lower(preset_name)
    IN IF preset_name_lower \notin DOMAIN PresetIds
       THEN [heap |-> h,
             result |-> Raised("ValueError",
                               UnknownPresetMessage(preset_name,
                                   join(<<",", " ">>, sorted(DOMAIN PresetIds))))]
       ELSE LET copied == DictCopy(h, PresetIds[preset_name_lower])
                preset == copied.heap[copied.ref]
            IN [heap |-> [copied.heap EXCEPT ![copied.ref] =
                             Bundle(Override(tile_width, preset.tile_width),
                                    Override(tile_height, preset.tile_height),
                                    Override(overlap, preset.overlap))],
                result |-> Returned(copied.ref)]

\* adjust_element_coordinates on the heap
AdjustOnHeap(h, element_rect, tile_bounds) ==
    DictDisplay(h, adjust_element_coordinates(h[element_rect], tile_bounds))

\* adjust_elements_batch on the heap: the list of the identities returned
RECURSIVE AdjustBatchOnHeap(_, _, _)
AdjustBatchOnHeap(h, elements, tile_bounds) ==
    IF elements = <<>> THEN [heap |-> h, refs |-> <<>>]
    ELSE LET first == AdjustOnHeap(h, Head(elements), tile_bounds)
             rest == AdjustBatchOnHeap(first.heap, Tail(elements), tile_bounds)
         IN [heap |-> rest.heap, refs |-> <<first.ref>> \o rest.refs]

\* arguments of the calls that share the heap
SharedPresetInputs ==
    [preset_name : {claude, <<"G", "E", "M", "I", "N", "I">>, <<"q", "w", "e", "n">>},
     tile_width : {None, Some(1000)},
     tile_height : {None},
     overlap : {None}]

SharedTiles == {TileBounds(5, 1, 2, 2300, 1500, 100, 250)}

\* the keys a caller overwrites in a dict it was handed, and the value it stores
CallerKeys(content) == IF "x" \in DOMAIN content THEN {"x"} ELSE {"tile_width", "overlap"}

CallerValue(content) == IF "x" \in DOMAIN content THEN FromInt(-1) ELSE 9999

----------------------------------------------------------------------------
(* app/screenshot.py: ScreenshotService.capture and _get_page.  Playwright *)
(* is the environment: every await on it returns or raises.                *)

\* the fields of a ScreenshotRequest that decide which calls are awaited:
\* cookies, localStorage and sessionStorage say whether there are any
ScreenshotRequest(block_ads, cookies, localStorage, sessionStorage, wait, selector, dom) ==
    [block_ads |-> block_ads, cookies |-> cookies, localStorage |-> localStorage,
     sessionStorage |-> sessionStorage, wait_for_timeout |-> wait,
     wait_for_selector |-> selector, extract_dom |-> dom]

ShotRequests ==
    { ScreenshotRequest(ads, cookies, local, session, wait, selector, dom) :
        ads \in BOOLEAN, cookies \in BOOLEAN, local \in BOOLEAN, session \in BOOLEAN,
        wait \in {0, 1000}, selector \in BOOLEAN, dom \in BOOLEAN }

has_storage_to_inject(request) == request.localStorage \/ request.sessionStorage

\* the awaits of _get_page before its try, in order
SetupSteps ==
    <<"initialize", "new_context", "route", "add_cookies", "new_page", "origin_goto",
      "inject_localStorage", "inject_sessionStorage">>

\* the awaits of capture inside "async with self._get_page(request) as page"
BodySteps ==
    <<"goto", "wait_for_timeout", "wait_for_selector", "extract_dom", "screenshot">>

PageSteps == SetupSteps \o BodySteps

\* the condition under which capture reaches the await
Awaited(step, request, browser) ==
    CASE step = "initialize" -> IsNone(browser)
      [] step = "route" -> request.block_ads
      [] step = "add_cookies" -> request.cookies
      [] step = "origin_goto" -> has_storage_to_inject(request)
      [] step = "inject_localStorage" ->
            has_storage_to_inject(request) /\ request.localStorage
      [] step = "inject_sessionStorage" ->
            has_storage_to_inject(request) /\ request.sessionStorage
      [] step = "wait_for_timeout" -> request.wait_for_timeout > 0
      [] step = "wait_for_selector" -> request.wait_for_selector
      [] step = "extract_dom" -> request.extract_dom
      [] OTHER -> TRUE

\* the await that follows position i, or "close" when the body is through
StepAfter(i, request, browser) ==
    LET later == {j \in (i + 1)..Len(PageSteps) : Awaited(PageSteps[j], request, browser)}
    IN IF later = {} THEN "close"
       ELSE PageSteps[CHOOSE j \in later : \A k \in later : j <= k]

\* the await is inside "try: yield page finally: await context.close()"
InTry(step) == IsIn(BodySteps, step)

\* the locals of capture and _get_page before the first await
ShotStart(request, browser) ==
    [pc |-> StepAfter(0, request, browser), context |-> "none", exception |-> None]

----------------------------------------------------------------------------
(* app/screenshot.py: ScreenshotService.initialize, called by concurrent   *)
(* tasks, directly or through _get_page and capture_tiled.                 *)

MaxTasks == 3

Tasks == 1..MaxTasks

\* initialize() itself, or a call that begins with
\* "if not self._browser: await self.initialize()"
ServiceCalls == {"initialize", "_get_page", "capture_tiled"}

Task(op) == [op |-> op, pc |-> "call"]

\* "if self._browser is not None: return", before the lock
HoldsBrowser(browser) == ~IsNone(browser)

\* the same test under the lock, and a mutant that leaves it out
HoldsBrowserNotAsked(browser) == FALSE

HoldsBrowserUnderLock(browser) == ~IsNone(browser)

\* where a task is once initialize() has returned
AfterInitialize(task) == IF task.op = "initialize" THEN "returned" ELSE "use"

----------------------------------------------------------------------------
(* Specifications: one per entry point.  Init draws the entry point's      *)
(* arguments, the action applies it; the variables of the other entry      *)
(* points stay idle.  VISION_AI_PRESETS is module state and always starts  *)
(* as the module defines it.                                               *)

GridIdle == grid_args = None /\ grid_result = NoResult

QualityIdle == quality_args = None /\ quality_result = NoResult

AdjustIdle == adjust_args = None /\ adjust_result = NoResult

PresetIdle ==
    VISION_AI_PRESETS = PresetTable /\ preset_args = None /\ preset_result = NoResult

ObjectIdle == heap = None /\ caller_refs = None /\ last_call = None

HintsIdle ==
    /\ environ = None /\ config_file = None /\ _MODEL_CONFIG = None
    /\ VISION_MODEL_LIMITS = None /\ VISION_DEFAULT_MODEL = None
    /\ VISION_TILE_OVERLAP_PERCENT = None
    /\ hints_args = None /\ hints_result = NoResult

WaitIdle == wait_args = None /\ wait_result = NoResult

ServiceIdle ==
    /\ _playwright = None /\ _browser = None /\ _lock = None
    /\ playwright_starts = 0 /\ chromium_launches = 0 /\ tasks = <<>>

ShotIdle == shot_request = None /\ shot = None /\ shot_outcome = NoResult

CaptureIdle ==
    /\ cap_request = None
    /\ cap = None
    /\ page_log = <<>>
    /\ cap_outcome = NoResult

GridInit ==
    /\ pc = "call"
    /\ grid_args \in GridInputs
    /\ grid_result = NoResult
    /\ QualityIdle
    /\ AdjustIdle
    /\ PresetIdle
    /\ CaptureIdle
    /\ ObjectIdle
    /\ HintsIdle
    /\ WaitIdle
    /\ ServiceIdle
    /\ ShotIdle

CallTileGrid ==
    /\ pc = "call"
    /\ grid_result' = calculate_tile_grid(grid_args)
    /\ pc' = "done"
    /\ UNCHANGED <<grid_args, qualityVars, adjustVars, presetVars, captureVars,
                   objectVars, hintsVars,
                   waitVars,
                   serviceVars,
                   shotVars>>

SpecGrid == GridInit /\ [][CallTileGrid]_vars

QualityInit ==
    /\ pc = "call"
    /\ quality_args \in QualityInputs
    /\ quality_result = NoResult
    /\ GridIdle
    /\ AdjustIdle
    /\ PresetIdle
    /\ CaptureIdle
    /\ ObjectIdle
    /\ HintsIdle
    /\ WaitIdle
    /\ ServiceIdle
    /\ ShotIdle

CallAssess ==
    /\ pc = "call"
    /\ quality_result' = assess_extraction_quality(quality_args)
    /\ pc' = "done"
    /\ UNCHANGED <<quality_args, gridVars, adjustVars, presetVars, captureVars,
                   objectVars, hintsVars,
                   waitVars,
                   serviceVars,
                   shotVars>>

SpecQuality == QualityInit /\ [][CallAssess]_vars

AdjustInit ==
    /\ pc = "call"
    /\ adjust_args \in [elements : ListsUpTo(AdjustRects, MaxBatch),
                        tile_bounds : AdjustTiles]
    /\ adjust_result = NoResult
    /\ GridIdle
    /\ QualityIdle
    /\ PresetIdle
    /\ CaptureIdle
    /\ ObjectIdle
    /\ HintsIdle
    /\ WaitIdle
    /\ ServiceIdle
    /\ ShotIdle

\* one call of adjust_element_coordinates, on any rectangle of the list
CallAdjustElement ==
    /\ pc = "call"
    /\ \E i \in DOMAIN adjust_args.elements :
          adjust_result' =
              [call |-> "adjust_element_coordinates",
               element_rect |-> adjust_args.elements[i],
               value |-> adjust_element_coordinates(adjust_args.elements[i],
                                                    adjust_args.tile_bounds)]
    /\ pc' = "done"
    /\ UNCHANGED <<adjust_args, gridVars, qualityVars, presetVars, captureVars,
                   objectVars, hintsVars,
                   waitVars,
                   serviceVars,
                   shotVars>>

CallAdjustBatch ==
    /\ pc = "call"
    /\ adjust_result' =
          [call |-> "adjust_elements_batch",
           value |-> adjust_elements_batch(adjust_args.elements,
                                           adjust_args.tile_bounds)]
    /\ pc' = "done"
    /\ UNCHANGED <<adjust_args, gridVars, qualityVars, presetVars, captureVars,
                   objectVars, hintsVars,
                   waitVars,
                   serviceVars,
                   shotVars>>

SpecAdjust == AdjustInit /\ [][CallAdjustElement \/ CallAdjustBatch]_vars

PresetInit ==
    /\ pc = "call"
    /\ VISION_AI_PRESETS = PresetTable
    /\ preset_args \in PresetInputs
    /\ preset_result = NoResult
    /\ GridIdle
    /\ QualityIdle
    /\ AdjustIdle
    /\ CaptureIdle
    /\ ObjectIdle
    /\ HintsIdle
    /\ WaitIdle
    /\ ServiceIdle
    /\ ShotIdle

CallApplyPreset ==
    /\ pc = "call"
    /\ preset_result' = apply_vision_preset(VISION_AI_PRESETS, preset_args.preset_name,
                                            preset_args.tile_width,
                                            preset_args.tile_height,
                                            preset_args.overlap)
    /\ pc' = "done"
    /\ UNCHANGED <<VISION_AI_PRESETS, preset_args, gridVars, qualityVars,
                   adjustVars, captureVars,
                   objectVars, hintsVars,
                   waitVars,
                   serviceVars,
                   shotVars>>

SpecPreset == PresetInit /\ [][CallApplyPreset]_vars

CaptureInit ==
    /\ pc = "call"
    /\ cap_request \in CaptureRequests
    /\ cap = CaptureStart
    /\ page_log = <<>>
    /\ cap_outcome = NoResult
    /\ GridIdle
    /\ QualityIdle
    /\ AdjustIdle
    /\ PresetIdle
    /\ ObjectIdle
    /\ HintsIdle
    /\ WaitIdle
    /\ ServiceIdle
    /\ ShotIdle

\* "finally: await context.close()" with the exception or the response
CaptureLeave(outcome) ==
    /\ cap' = [cap EXCEPT !.pc = "left", !.context_open = FALSE]
    /\ page_log' = Append(page_log, PageCall("close", 0, 0))
    /\ cap_outcome' = outcome
    /\ pc' = "done"

\* the preset is applied and the browser context is created
CaptureBegin ==
    /\ pc = "call" /\ cap.pc = "start"
    /\ LET preset == PresetForRequest(VISION_AI_PRESETS, cap_request)
       IN IF NamesModel(cap_request) /\ IsRaised(preset)
          THEN /\ cap' = [cap EXCEPT !.pc = "left"]
               /\ cap_outcome' = preset
               /\ pc' = "done"
               /\ UNCHANGED page_log
          ELSE LET width == IF NamesModel(cap_request) THEN preset.value.tile_width
                            ELSE cap_request.tile_width
                   height == IF NamesModel(cap_request) THEN preset.value.tile_height
                             ELSE cap_request.tile_height
                   overlap == IF NamesModel(cap_request) THEN preset.value.overlap
                              ELSE cap_request.overlap
               IN /\ cap' = [cap EXCEPT
                                !.pc = "context",
                                !.effective_tile_width = width,
                                !.effective_tile_height = height,
                                !.effective_overlap = overlap,
                                !.applied_preset =
                                    IF NamesModel(cap_request)
                                    THEN Some(lower(Val(cap_request.target_vision_model)))
                                    ELSE None,
                                !.context_open = TRUE]
                  /\ page_log' = Append(page_log, PageCall("new_context", width, height))
                  /\ UNCHANGED <<cap_outcome, pc>>
    /\ UNCHANGED <<cap_request, gridVars, qualityVars, adjustVars, presetVars,
                   objectVars, hintsVars,
                   waitVars,
                   serviceVars,
                   shotVars>>

\* the page is set up and loaded, and reports its size
CaptureLoadPage ==
    /\ pc = "call" /\ cap.pc = "context"
    /\ \E size \in PageSizes :
          cap' = [cap EXCEPT !.pc = "measured", !.page_width = size[1],
                             !.page_height = size[2]]
    /\ UNCHANGED <<cap_request, page_log, cap_outcome, pc,
                   gridVars, qualityVars, adjustVars, presetVars,
                   objectVars, hintsVars,
                   waitVars,
                   serviceVars,
                   shotVars>>

\* any await on the context or the page raises
CaptureBrowserFails ==
    /\ pc = "call" /\ cap.pc \in {"context", "tiles"}
    /\ CaptureLeave(Raised("Error", cap.pc))
    /\ UNCHANGED <<cap_request, gridVars, qualityVars, adjustVars, presetVars,
                   objectVars, hintsVars,
                   waitVars,
                   serviceVars,
                   shotVars>>

\* the grid is calculated and checked against max_tile_count
CaptureGrid ==
    /\ pc = "call" /\ cap.pc = "measured"
    /\ LET grid == calculate_tile_grid(
                       GridArgs(cap.page_height, cap.effective_tile_height,
                                Some(cap.effective_overlap), Some(cap.page_width),
                                Some(cap.effective_tile_width)))
       IN IF IsRaised(grid) THEN CaptureLeave(grid)
          ELSE IF ExceedsMax(Len(grid.value), cap_request.max_tile_count)
          THEN /\ CaptureLeave(HTTPException(400, Len(grid.value),
                                             cap_request.max_tile_count))
          ELSE /\ cap' = [cap EXCEPT
                             !.pc = "tiles",
                             !.tile_bounds_list = grid.value,
                             !.per_tile_wait =
                                 calculate_per_tile_wait(cap_request.wait_for_timeout,
                                                         Len(grid.value), DefaultMinWait)]
               /\ UNCHANGED <<page_log, cap_outcome, pc>>
    /\ UNCHANGED <<cap_request, gridVars, qualityVars, adjustVars, presetVars,
                   objectVars, hintsVars,
                   waitVars,
                   serviceVars,
                   shotVars>>

\* one iteration of "for bounds in tile_bounds_list"
CaptureTile ==
    /\ pc = "call" /\ cap.pc = "tiles"
    /\ Len(cap.tiles) < Len(cap.tile_bounds_list)
    /\ LET bounds == cap.tile_bounds_list[Len(cap.tiles) + 1]
           image == [x |-> bounds.x, y |-> bounds.y,
                     width |-> bounds.width, height |-> bounds.height]
       IN /\ \E extraction \in DomExtractions :
                cap' = [cap EXCEPT
                           !.tiles = Append(@, Tile(bounds, image,
                                         IF cap_request.extract_dom
                                         THEN Some(EnrichExtraction(extraction, bounds))
                                         ELSE None))]
          /\ page_log' = page_log \o
                <<PageCall("scrollTo", bounds.x, bounds.y),
                  PageCall("wait_for_timeout", cap.per_tile_wait, 0),
                  PageCall("screenshot", bounds.width, bounds.height)>>
    /\ UNCHANGED <<cap_request, cap_outcome, pc,
                   gridVars, qualityVars, adjustVars, presetVars,
                   objectVars, hintsVars,
                   waitVars,
                   serviceVars,
                   shotVars>>

\* the loop is over: the response is built and returned
CaptureFinish ==
    /\ pc = "call" /\ cap.pc = "tiles"
    /\ Len(cap.tiles) = Len(cap.tile_bounds_list)
    /\ CaptureLeave(TiledScreenshotResponse(cap))
    /\ UNCHANGED <<cap_request, gridVars, qualityVars, adjustVars, presetVars,
                   objectVars, hintsVars,
                   waitVars,
                   serviceVars,
                   shotVars>>

CaptureNext ==
    \/ CaptureBegin
    \/ CaptureLoadPage
    \/ CaptureBrowserFails
    \/ CaptureGrid
    \/ CaptureTile
    \/ CaptureFinish

SpecCapture == CaptureInit /\ [][CaptureNext]_vars

\* calculate_tile_grid called by itself or from capture_tiled
TilingInit == GridInit \/ CaptureInit

TilingNext ==
    \/ ~IsNone(grid_args) /\ CallTileGrid
    \/ ~IsNone(cap_request) /\ CaptureNext

SpecTiling == TilingInit /\ [][TilingNext]_vars

WaitInit ==
    /\ pc = "call"
    /\ wait_args \in WaitInputs
    /\ wait_result = NoResult
    /\ GridIdle
    /\ QualityIdle
    /\ AdjustIdle
    /\ PresetIdle
    /\ CaptureIdle
    /\ ObjectIdle
    /\ HintsIdle
    /\ ServiceIdle
    /\ ShotIdle

CallPerTileWait ==
    /\ pc = "call"
    /\ wait_result' = PerTileWaitCall(wait_args)
    /\ pc' = "done"
    /\ UNCHANGED <<wait_args, gridVars, qualityVars, adjustVars, presetVars, captureVars,
                   objectVars, hintsVars,
                   serviceVars,
                   shotVars>>

SpecWait == WaitInit /\ [][CallPerTileWait]_vars

ShotInit ==
    /\ pc = "call"
    /\ shot_request \in ShotRequests
    /\ _browser \in {None, Some(1)}
    /\ _playwright = _browser
    /\ chromium_launches = Len(_browser)
    /\ playwright_starts = Len(_playwright)
    /\ _lock = None
    /\ tasks = <<>>
    /\ shot = ShotStart(shot_request, _browser)
    /\ shot_outcome = NoResult
    /\ GridIdle
    /\ QualityIdle
    /\ AdjustIdle
    /\ PresetIdle
    /\ CaptureIdle
    /\ ObjectIdle
    /\ HintsIdle
    /\ WaitIdle

\* the await capture is at returns
ShotStep ==
    /\ ~IsNone(shot_request) /\ pc = "call"
    /\ IsIn(PageSteps, shot.pc)
    /\ IF shot.pc = "initialize"
       THEN /\ _playwright' = Some(1)
            /\ _browser' = Some(1)
            /\ playwright_starts' = playwright_starts + 1
            /\ chromium_launches' = chromium_launches + 1
       ELSE UNCHANGED <<_playwright, _browser, playwright_starts, chromium_launches>>
    /\ shot' = [shot EXCEPT
                   !.pc = StepAfter(IndexIn(PageSteps, shot.pc), shot_request, Some(1)),
                   !.context = IF shot.pc = "new_context" THEN "open" ELSE @]
    /\ UNCHANGED <<shot_request, shot_outcome, pc, _lock, tasks,
                   gridVars, qualityVars, adjustVars, presetVars, captureVars,
                   objectVars, hintsVars, waitVars>>

\* the await capture is at raises: inside the try of _get_page the finally
\* runs before the exception leaves, outside it the exception leaves at once
ShotStepRaises ==
    /\ ~IsNone(shot_request) /\ pc = "call"
    /\ IsIn(PageSteps, shot.pc)
    /\ IF InTry(shot.pc)
       THEN /\ shot' = [shot EXCEPT !.pc = "close", !.exception = Some(shot.pc)]
            /\ UNCHANGED <<shot_outcome, pc>>
       ELSE /\ shot' = [shot EXCEPT !.pc = "left"]
            /\ shot_outcome' = Raised("Error", shot.pc)
            /\ pc' = "done"
    /\ IF shot.pc = "initialize"
       THEN \* start() raised, or it returned and launch() raised
            \E started \in BOOLEAN :
               /\ _playwright' = IF started THEN Some(1) ELSE _playwright
               /\ playwright_starts' = IF started THEN playwright_starts + 1
                                       ELSE playwright_starts
       ELSE UNCHANGED <<_playwright, playwright_starts>>
    /\ UNCHANGED <<shot_request, _browser, chromium_launches, _lock, tasks,
                   gridVars, qualityVars, adjustVars, presetVars, captureVars,
                   objectVars, hintsVars, waitVars>>

\* "finally: await context.close()", then capture returns or the exception
\* goes on
ShotClose ==
    /\ ~IsNone(shot_request) /\ pc = "call"
    /\ shot.pc = "close"
    /\ shot' = [shot EXCEPT !.pc = "left", !.context = "closed"]
    /\ shot_outcome' = IF IsNone(shot.exception) THEN Returned("screenshot")
                       ELSE Raised("Error", Val(shot.exception))
    /\ pc' = "done"
    /\ UNCHANGED <<shot_request, serviceVars,
                   gridVars, qualityVars, adjustVars, presetVars, captureVars,
                   objectVars, hintsVars, waitVars>>

ShotNext == ShotStep \/ ShotStepRaises \/ ShotClose

\* the calls that open a browser context: capture and capture_tiled
ContextsInit == ShotInit \/ CaptureInit

ContextsNext ==
    \/ ShotNext
    \/ ~IsNone(cap_request) /\ CaptureNext

SpecContexts == ContextsInit /\ [][ContextsNext]_vars

InitializeInit ==
    /\ pc = "call"
    /\ tasks \in [Tasks -> {Task(op) : op \in ServiceCalls}]
    /\ _playwright = None
    /\ _browser = None
    /\ _lock = None
    /\ playwright_starts = 0
    /\ chromium_launches = 0
    /\ ShotIdle
    /\ GridIdle
    /\ QualityIdle
    /\ AdjustIdle
    /\ PresetIdle
    /\ CaptureIdle
    /\ ObjectIdle
    /\ HintsIdle
    /\ WaitIdle

ServiceFrame ==
    UNCHANGED <<pc, shotVars, gridVars, qualityVars, adjustVars, presetVars, captureVars,
                objectVars, hintsVars, waitVars>>

\* the call begins and runs to the lock: a browser is held and it goes on,
\* or it waits for the lock
InitializeEnter(t) ==
    /\ tasks[t].pc = "call"
    /\ tasks' = [tasks EXCEPT ![t].pc = IF HoldsBrowser(_browser)
                                        THEN AfterInitialize(tasks[t]) ELSE "acquire"]
    /\ UNCHANGED <<_playwright, _browser, _lock, playwright_starts, chromium_launches>>
    /\ ServiceFrame

\* the lock is free and the task takes it: a browser is held by now and the
\* lock is released, or async_playwright().start() is awaited
InitializeLocked(t) ==
    /\ tasks[t].pc = "acquire"
    /\ IsNone(_lock)
    /\ IF HoldsBrowserUnderLock(_browser)
       THEN /\ tasks' = [tasks EXCEPT ![t].pc = AfterInitialize(tasks[t])]
            /\ UNCHANGED _lock
       ELSE /\ tasks' = [tasks EXCEPT ![t].pc = "starting"]
            /\ _lock' = Some(t)
    /\ UNCHANGED <<_playwright, _browser, playwright_starts, chromium_launches>>
    /\ ServiceFrame

\* start() returns a Playwright; chromium.launch() is awaited
PlaywrightStarted(t) ==
    /\ tasks[t].pc = "starting"
    /\ playwright_starts' = playwright_starts + 1
    /\ _playwright' = Some(playwright_starts')
    /\ tasks' = [tasks EXCEPT ![t].pc = "launching"]
    /\ UNCHANGED <<_browser, _lock, chromium_launches>>
    /\ ServiceFrame

\* launch() returns a Browser; the lock is released and initialize returns
ChromiumLaunched(t) ==
    /\ tasks[t].pc = "launching"
    /\ chromium_launches' = chromium_launches + 1
    /\ _browser' = Some(chromium_launches')
    /\ _lock' = None
    /\ tasks' = [tasks EXCEPT ![t].pc = AfterInitialize(tasks[t])]
    /\ UNCHANGED <<_playwright, playwright_starts>>
    /\ ServiceFrame

\* start() or launch() raises: the lock is released and the call raises
InitializeRaises(t) ==
    /\ tasks[t].pc \in {"starting", "launching"}
    /\ _lock' = None
    /\ tasks' = [tasks EXCEPT ![t].pc = "raised"]
    /\ UNCHANGED <<_playwright, _browser, playwright_starts, chromium_launches>>
    /\ ServiceFrame

\* "await self._browser.new_context(...)" of _get_page and capture_tiled
UseBrowser(t) ==
    /\ tasks[t].pc = "use"
    /\ tasks' = [tasks EXCEPT ![t].pc = IF IsNone(_browser) THEN "raised"
                                        ELSE "returned"]
    /\ UNCHANGED <<_playwright, _browser, _lock, playwright_starts, chromium_launches>>
    /\ ServiceFrame

InitializeNext ==
    \E t \in Tasks :
        \/ InitializeEnter(t)
        \/ InitializeLocked(t)
        \/ PlaywrightStarted(t)
        \/ ChromiumLaunched(t)
        \/ InitializeRaises(t)
        \/ UseBrowser(t)

SpecInitialize == InitializeInit /\ [][InitializeNext]_vars

SharedInit ==
    /\ pc = "caller"
    /\ heap = InitialHeap
    /\ VISION_AI_PRESETS = TableOf(InitialHeap)
    /\ caller_refs = <<>>
    /\ last_call = [op |-> "none"]
    /\ preset_args = None /\ preset_result = NoResult
    /\ GridIdle
    /\ QualityIdle
    /\ AdjustIdle
    /\ CaptureIdle
    /\ HintsIdle
    /\ WaitIdle
    /\ ServiceIdle
    /\ ShotIdle

MayAllocate(n) == Len(heap) + n <= Len(InitialHeap) + MaxAllocated

\* the caller calls apply_vision_preset and keeps what it returns
SharedApplyPreset ==
    /\ pc = "caller" /\ MayAllocate(1)
    /\ \E args \in SharedPresetInputs :
          LET done == ApplyPresetOnHeap(heap, args.preset_name, args.tile_width,
                                        args.tile_height, args.overlap)
          IN /\ heap' = done.heap
             /\ VISION_AI_PRESETS' = TableOf(done.heap)
             /\ caller_refs' = IF IsReturned(done.result)
                               THEN Append(caller_refs, done.result.value)
                               ELSE caller_refs
             /\ last_call' = [op |-> "apply_vision_preset", args |-> args,
                              result |-> done.result,
                              content |-> IF IsReturned(done.result)
                                          THEN Some(done.heap[done.result.value])
                                          ELSE None]
    /\ UNCHANGED <<pc, preset_args, preset_result, gridVars, qualityVars, adjustVars,
                   captureVars, hintsVars,
                   waitVars,
                   serviceVars,
                   shotVars>>

\* the caller calls adjust_element_coordinates on one of its rectangles
SharedAdjustElement ==
    /\ pc = "caller" /\ MayAllocate(1)
    /\ \E element_rect \in CallerRectIds, tile_bounds \in SharedTiles :
          LET done == AdjustOnHeap(heap, element_rect, tile_bounds)
          IN /\ heap' = done.heap
             /\ VISION_AI_PRESETS' = TableOf(done.heap)
             /\ caller_refs' = Append(caller_refs, done.ref)
             /\ last_call' = [op |-> "adjust_element_coordinates",
                              args |-> <<element_rect>>, tile |-> tile_bounds,
                              result |-> <<done.ref>>]
    /\ UNCHANGED <<pc, preset_args, preset_result, gridVars, qualityVars, adjustVars,
                   captureVars, hintsVars,
                   waitVars,
                   serviceVars,
                   shotVars>>

\* the caller calls adjust_elements_batch on a list of its rectangles
SharedAdjustBatch ==
    /\ pc = "caller"
    /\ \E elements \in ListsUpTo(CallerRectIds, MaxBatch), tile_bounds \in SharedTiles :
          /\ MayAllocate(Len(elements))
          /\ LET done == AdjustBatchOnHeap(heap, elements, tile_bounds)
             IN /\ heap' = done.heap
                /\ VISION_AI_PRESETS' = TableOf(done.heap)
                /\ caller_refs' = caller_refs \o done.refs
                /\ last_call' = [op |-> "adjust_elements_batch", args |-> elements,
                                 tile |-> tile_bounds, result |-> done.refs]
    /\ UNCHANGED <<pc, preset_args, preset_result, gridVars, qualityVars, adjustVars,
                   captureVars, hintsVars,
                   waitVars,
                   serviceVars,
                   shotVars>>

\* the caller stores a value under a key of a dict some call returned
SharedMutateReturned ==
    /\ pc = "caller"
    /\ \E i \in DOMAIN caller_refs :
          \E key \in CallerKeys(heap[caller_refs[i]]) :
             /\ heap[caller_refs[i]][key] # CallerValue(heap[caller_refs[i]])
             /\ heap' = [heap EXCEPT ![caller_refs[i]][key] = CallerValue(heap[caller_refs[i]])]
    /\ VISION_AI_PRESETS' = TableOf(heap')
    /\ UNCHANGED <<pc, caller_refs, last_call, preset_args, preset_result, gridVars,
                   qualityVars, adjustVars, captureVars, hintsVars,
                   waitVars,
                   serviceVars,
                   shotVars>>

SharedNext ==
    \/ SharedApplyPreset
    \/ SharedAdjustElement
    \/ SharedAdjustBatch
    \/ SharedMutateReturned

SpecShared == SharedInit /\ [][SharedNext]_vars

ConfigUnloaded ==
    /\ _MODEL_CONFIG = None
    /\ VISION_MODEL_LIMITS = None
    /\ VISION_DEFAULT_MODEL = None
    /\ VISION_TILE_OVERLAP_PERCENT = None
    /\ hints_args = None
    /\ hints_result = NoResult

ConfigInit ==
    /\ pc = "load"
    /\ environ \in ConfigEnvironments
    /\ config_file \in ConfigFiles
    /\ ConfigUnloaded
    /\ GridIdle
    /\ QualityIdle
    /\ AdjustIdle
    /\ PresetIdle
    /\ CaptureIdle
    /\ ObjectIdle
    /\ WaitIdle
    /\ ServiceIdle
    /\ ShotIdle

CallCheckCompatibility ==
    /\ pc = "loaded"
    /\ \E image \in HintsImages, model \in DOMAIN DefaultModelLimits :
          /\ hints_args' = Some([width |-> image[1], height |-> image[2], model |-> model])
          /\ hints_result' = Returned(_check_model_compatibility(VISION_MODEL_LIMITS,
                                                                 image[1], image[2], model))
    /\ pc' = "checked"
    /\ UNCHANGED <<configVars, gridVars, qualityVars, adjustVars, presetVars, captureVars,
                   objectVars,
                   waitVars,
                   serviceVars,
                   shotVars>>

\* app/quality_assessment.py is imported: its module-level statements run
LoadQualityModule ==
    /\ pc = "load"
    /\ LET loaded == LoadQualityAssessment(environ, config_file)
       IN IF IsRaised(loaded)
          THEN /\ pc' = "load_failed"
               /\ hints_result' = loaded
               /\ UNCHANGED <<_MODEL_CONFIG, VISION_MODEL_LIMITS, VISION_DEFAULT_MODEL,
                              VISION_TILE_OVERLAP_PERCENT>>
          ELSE /\ pc' = "loaded"
               /\ _MODEL_CONFIG' = loaded.value._MODEL_CONFIG
               /\ VISION_MODEL_LIMITS' = loaded.value.VISION_MODEL_LIMITS
               /\ VISION_DEFAULT_MODEL' = loaded.value.VISION_DEFAULT_MODEL
               /\ VISION_TILE_OVERLAP_PERCENT' = loaded.value.VISION_TILE_OVERLAP_PERCENT
               /\ UNCHANGED hints_result
    /\ UNCHANGED <<environ, config_file, hints_args, gridVars, qualityVars, adjustVars,
                   presetVars, captureVars, objectVars,
                   waitVars,
                   serviceVars,
                   shotVars>>

\* after the import: the table is read by the calls, here those of
\* _check_model_compatibility
ConfigNext ==
    \/ LoadQualityModule
    \/ CallCheckCompatibility

SpecConfig == ConfigInit /\ [][ConfigNext]_vars

HintsInit ==
    /\ pc = "load"
    /\ environ \in HintsEnvironments
    /\ config_file = None
    /\ ConfigUnloaded
    /\ GridIdle
    /\ QualityIdle
    /\ AdjustIdle
    /\ PresetIdle
    /\ CaptureIdle
    /\ ObjectIdle
    /\ WaitIdle
    /\ ServiceIdle
    /\ ShotIdle

CallGenerateHints ==
    /\ pc = "loaded"
    /\ \E args \in HintsInputs :
          /\ hints_args' = Some(args)
          /\ hints_result' = generate_vision_hints(VISION_MODEL_LIMITS, VISION_DEFAULT_MODEL,
                                                   VISION_TILE_OVERLAP_PERCENT, args)
    /\ pc' = "done"
    /\ UNCHANGED <<configVars, gridVars, qualityVars, adjustVars, presetVars, captureVars,
                   objectVars,
                   waitVars,
                   serviceVars,
                   shotVars>>

HintsNext ==
    \/ LoadQualityModule
    \/ CallGenerateHints
    \/ CallCheckCompatibility

SpecHints == HintsInit /\ [][HintsNext]_vars

----------------------------------------------------------------------------
(* Properties of calculate_tile_grid *)

GridReturned == pc = "done" /\ IsReturned(grid_result)

GridTiles == grid_result.value

TileSet == {GridTiles[i] : i \in DOMAIN GridTiles}

Covers(t, px, py) ==
    /\ t.x <= px /\ px < t.x + t.width
    /\ t.y <= py /\ py < t.y + t.height

\* Left and top edges of the maximal cells no tile edge crosses: a pixel is in
\* the same tiles as the corner of its cell, so the corners decide coverage
\* of a page of any size.
EdgesX(page_width) ==
    {0} \cup {v \in {t.x : t \in TileSet} \cup {t.x + t.width : t \in TileSet} :
                v >= 0 /\ v < page_width}

EdgesY(page_height) ==
    {0} \cup {v \in {t.y : t \in TileSet} \cup {t.y + t.height : t \in TileSet} :
                v >= 0 /\ v < page_height}

\* C1: every accepted call returns tiles whose union is exactly the page:
\* each page pixel lies in a tile, and each tile has positive size and lies
\* inside the page (a page no larger than the viewport gives one tile of the
\* page's size).
C1_TilesCoverPageExactly ==
    GridReturned =>
        LET e == EffectiveArgs(grid_args)
        IN /\ \A px \in EdgesX(e.page_width), py \in EdgesY(e.page_height) :
                 \E t \in TileSet : Covers(t, px, py)
           /\ (e.page_width <= MaxPage + 1 /\ e.page_height <= MaxPage + 1) =>
                 \A px \in 0..(e.page_width - 1), py \in 0..(e.page_height - 1) :
                    \E t \in TileSet : Covers(t, px, py)
           /\ \A t \in TileSet :
                 /\ t.x >= 0 /\ t.y >= 0 /\ t.width > 0 /\ t.height > 0
                 /\ t.x + t.width <= e.page_width
                 /\ t.y + t.height <= e.page_height
           /\ (e.page_width <= e.viewport_width /\ e.page_height <= e.viewport_height) =>
                 /\ Len(GridTiles) = 1
                 /\ GridTiles[1].width = e.page_width
                 /\ GridTiles[1].height = e.page_height

\* a returned grid of several rows and columns whose far tiles are clipped
C1_Witness ==
    /\ GridReturned
    /\ Len(GridTiles) >= 6
    /\ \E t \in TileSet : /\ t.row >= 1 /\ t.column >= 1
                          /\ t.width < EffectiveArgs(grid_args).viewport_width
                          /\ t.height < EffectiveArgs(grid_args).viewport_height

\* C2: tiles adjacent in a column or in a row overlap by exactly the
\* configured overlap, the seam before the last (clipped) tile included.
C2_EverySeamIsTheOverlap ==
    GridReturned =>
        LET e == EffectiveArgs(grid_args)
        IN \A p \in TileSet, c \in TileSet :
              /\ (c.column = p.column /\ c.row = p.row + 1) =>
                    p.y + p.height - c.y = e.overlap
              /\ (c.row = p.row /\ c.column = p.column + 1) =>
                    p.x + p.width - c.x = e.overlap

\* a grid with a positive overlap whose last row and last column are clipped
\* and are preceded by at least two full ones
C2_Witness ==
    /\ GridReturned
    /\ EffectiveArgs(grid_args).overlap > 0
    /\ \E t \in TileSet : /\ t.row >= 2 /\ t.column >= 2
                          /\ t.width < EffectiveArgs(grid_args).viewport_width
                          /\ t.height < EffectiveArgs(grid_args).viewport_height

\* what the claim calls invalid input, on the arguments as passed
GridInputInvalid(args) ==
    \/ args.page_height <= 0
    \/ args.viewport_height <= 0
    \/ ~IsNone(args.page_width) /\ Val(args.page_width) <= 0
    \/ ~IsNone(args.viewport_width) /\ Val(args.viewport_width) <= 0
    \/ ~IsNone(args.overlap) /\ Val(args.overlap) < 0
    \/ ~IsNone(args.overlap) /\ ~IsNone(args.viewport_width)
          /\ Val(args.overlap) >= Val(args.viewport_width)
    \/ ~IsNone(args.overlap) /\ Val(args.overlap) >= args.viewport_height

\* C3: invalid input is rejected with an error and no tile list, and every
\* returned grid was generated from positive dimensions with
\* 0 <= overlap < tile width and overlap < tile height.
C3_InvalidInputRejectedUpFront ==
    pc = "done" =>
        LET e == EffectiveArgs(grid_args)
        IN /\ GridInputInvalid(grid_args) => IsRaised(grid_result)
           /\ IsRaised(grid_result) =>
                 ~IsReturned(grid_result) /\ grid_result.raised = "ValueError"
           /\ IsReturned(grid_result) =>
                 /\ e.page_width > 0 /\ e.page_height > 0
                 /\ e.viewport_width > 0 /\ e.viewport_height > 0
                 /\ 0 <= e.overlap
                 /\ e.overlap < e.viewport_width /\ e.overlap < e.viewport_height
                 /\ Len(GridTiles) >= 1

\* a call with positive dimensions rejected only for overlap = viewport height
C3_Witness ==
    /\ pc = "done"
    /\ IsRaised(grid_result)
    /\ grid_result.what = "overlap_height"
    /\ grid_args.overlap = Some(grid_args.viewport_height)
    /\ grid_args.page_height > 0

----------------------------------------------------------------------------
(* Properties of assess_extraction_quality *)

QualityReturned == pc = "done" /\ IsReturned(quality_result)

\* the collection the call was about: None counts as empty
GivenElements == IF IsNone(quality_args) THEN <<>> ELSE Val(quality_args)

GivenCount == Len(GivenElements)

\* the distinct lower-cased tag names, every character lower-cased by the table
GivenTags ==
    { [k \in 1..Len(GivenElements[i].tag_name) |->
          LowerChar(GivenElements[i].tag_name[k])] : i \in 1..GivenCount }

GivenHasHeading ==
    \E t \in GivenTags :
        Len(t) = 2 /\ t[1] = "h" /\ t[2] \in {"1", "2", "3", "4", "5", "6"}

GivenHidden == Cardinality({i \in 1..GivenCount : ~GivenElements[i].is_visible})

RECURSIVE SumTextLengths(_)
SumTextLengths(i) ==
    IF i = 0 THEN 0 ELSE Len(GivenElements[i].text) + SumTextLengths(i - 1)

GivenTextLength == SumTextLengths(GivenCount)

\* C5: the tier is EMPTY for 0 elements, POOR for 1..4, LOW for 5..20, and
\* for 21 or more GOOD exactly when there are at least 3 distinct lower-cased
\* tags and some h1..h6 element, LOW otherwise.
C5_QualityTierByCount ==
    pc = "done" =>
        /\ IsReturned(quality_result)
        /\ quality_result.value.quality =
              IF GivenCount = 0 THEN "EMPTY"
              ELSE IF GivenCount <= 4 THEN "POOR"
              ELSE IF GivenCount <= 20 THEN "LOW"
              ELSE IF Cardinality(GivenTags) >= 3 /\ GivenHasHeading THEN "GOOD"
              ELSE "LOW"
        /\ GivenCount <= 20 => quality_result.value.quality # "GOOD"

\* exactly 21 elements of three distinct tags written in mixed case, the only
\* heading being upper-case "H1": the smallest GOOD input
C5_Witness ==
    /\ QualityReturned
    /\ GivenCount = 21
    /\ quality_result.value.quality = "GOOD"
    /\ Cardinality(GivenTags) = 3
    /\ \E i \in 1..GivenCount : GivenElements[i].tag_name = <<"H", "1">>

WarningCodes == [i \in 1..Len(quality_result.value.warnings) |->
                    quality_result.value.warnings[i].code]

HasCode(c) == \E i \in DOMAIN WarningCodes : WarningCodes[i] = c

\* when each code is due, for a non-empty collection
CodeDue(c) ==
    CASE c = "LOW_ELEMENT_COUNT" -> 1 <= GivenCount /\ GivenCount <= 4
      [] c = "LOW_TAG_DIVERSITY" -> Cardinality(GivenTags) < 3 /\ GivenCount >= 21
      [] c = "NO_HEADINGS" -> ~GivenHasHeading /\ GivenCount >= 10
      [] c = "MANY_HIDDEN" -> 2 * GivenHidden > GivenCount
      [] c = "MINIMAL_TEXT" -> GivenTextLength < 10 * GivenCount
      [] OTHER -> FALSE

CodeOrder == <<"LOW_ELEMENT_COUNT", "LOW_TAG_DIVERSITY", "NO_HEADINGS",
               "MANY_HIDDEN", "MINIMAL_TEXT">>

\* C6: the warning codes are exactly the due ones, once each, in the fixed
\* order; NO_ELEMENTS alone for an empty collection; GOOD never carries
\* LOW_TAG_DIVERSITY or NO_HEADINGS and LOW with 21 or more elements carries
\* one of them.
C6_WarningCodesExactlyDetermined ==
    QualityReturned =>
        /\ WarningCodes = IF GivenCount = 0 THEN <<"NO_ELEMENTS">>
                          ELSE SelectSeq(CodeOrder, CodeDue)
        /\ quality_result.value.quality = "GOOD" =>
              ~HasCode("LOW_TAG_DIVERSITY") /\ ~HasCode("NO_HEADINGS")
        /\ (quality_result.value.quality = "LOW" /\ GivenCount >= 21) =>
              HasCode("LOW_TAG_DIVERSITY") \/ HasCode("NO_HEADINGS")

\* exactly half of the elements hidden and an average text length of exactly
\* 10: neither MANY_HIDDEN nor MINIMAL_TEXT, while two other warnings fire
C6_Witness ==
    /\ QualityReturned
    /\ GivenCount = 22
    /\ 2 * GivenHidden = GivenCount
    /\ GivenTextLength = 10 * GivenCount
    /\ WarningCodes = <<"LOW_TAG_DIVERSITY", "NO_HEADINGS">>

----------------------------------------------------------------------------
(* Properties of the coordinate adjustment *)

AdjustDone == pc = "done" /\ "call" \in DOMAIN adjust_result

\* <<tile-relative rectangle, rectangle returned for it>> of the finished call
AdjustPairs ==
    IF adjust_result.call = "adjust_element_coordinates"
    THEN {<<adjust_result.element_rect, adjust_result.value>>}
    ELSE {<<adjust_args.elements[i], adjust_result.value[i]>> :
             i \in DOMAIN adjust_args.elements \cap DOMAIN adjust_result.value}

TileX == FromInt(adjust_args.tile_bounds.x)

TileY == FromInt(adjust_args.tile_bounds.y)

\* r + t needs no rounding
SumIsExact(r, t) == RoundToFloat(ExactAdd(r, t)) = ExactAdd(r, t)

\* C8 as stated: every returned rectangle, less the tile's offset, is the
\* tile-relative rectangle again.
C8_RoundTripAlwaysExact ==
    AdjustDone =>
        \A p \in AdjustPairs :
            /\ FloatSub(p[2].x, TileX) = p[1].x
            /\ FloatSub(p[2].y, TileY) = p[1].y
            /\ p[2].width = p[1].width /\ p[2].height = p[1].height

\* C8, amended: the result is {x + tile.x, y + tile.y, width, height} in
\* float arithmetic, the batch keeps length and order, and the round trip is
\* exact for every coordinate whose sum with the offset needs no rounding.
C8_AdjustAddsOffsetRoundTripWhenExact ==
    AdjustDone =>
        /\ \A p \in AdjustPairs :
              /\ p[2].x = RoundToFloat(ExactAdd(p[1].x, TileX))
              /\ p[2].y = RoundToFloat(ExactAdd(p[1].y, TileY))
              /\ p[2].width = p[1].width /\ p[2].height = p[1].height
              /\ SumIsExact(p[1].x, TileX) => FloatSub(p[2].x, TileX) = p[1].x
              /\ SumIsExact(p[1].y, TileY) => FloatSub(p[2].y, TileY) = p[1].y
        /\ adjust_result.call = "adjust_elements_batch" =>
              /\ Len(adjust_result.value) = Len(adjust_args.elements)
              /\ \A i \in DOMAIN adjust_args.elements :
                    adjust_result.value[i] =
                        Rect(RoundToFloat(ExactAdd(adjust_args.elements[i].x, TileX)),
                             RoundToFloat(ExactAdd(adjust_args.elements[i].y, TileY)),
                             adjust_args.elements[i].width,
                             adjust_args.elements[i].height)

\* a batch of two different rectangles, one with fractional and one with
\* negative coordinates, mapped against a tile with both offsets non-zero,
\* every sum exact
C8_Witness ==
    /\ AdjustDone
    /\ adjust_result.call = "adjust_elements_batch"
    /\ Len(adjust_result.value) = 2
    /\ adjust_args.elements[1] # adjust_args.elements[2]
    /\ adjust_args.tile_bounds.x > 0 /\ adjust_args.tile_bounds.y > 0
    /\ adjust_args.elements[1].x = Num(FALSE, Bits(17, -1))
    /\ adjust_args.elements[2].y.neg
    /\ \A i \in 1..2 : /\ SumIsExact(adjust_args.elements[i].x, TileX)
                       /\ SumIsExact(adjust_args.elements[i].y, TileY)

----------------------------------------------------------------------------
(* Properties of apply_vision_preset *)

PresetDone == pc = "done" /\ "pending" \notin DOMAIN preset_result

\* the name as asked for, every upper-case letter replaced by its lower-case one
AskedNameLowerCased ==
    [i \in 1..Len(preset_args.preset_name) |->
        IF IsIn(UpperCase, preset_args.preset_name[i])
        THEN LowerCase[IndexIn(UpperCase, preset_args.preset_name[i])]
        ELSE preset_args.preset_name[i]]

AskedIsRecognized == AskedNameLowerCased \in DOMAIN PresetTable

\* C9: for a recognized name every field of the returned bundle is the
\* override when one is supplied (not None) and the table's value otherwise.
C9_OverridesReplacePresetFields ==
    (PresetDone /\ AskedIsRecognized) =>
        /\ IsReturned(preset_result)
        /\ LET b == preset_result.value
               t == PresetTable[AskedNameLowerCased]
           IN /\ DOMAIN b = {"tile_width", "tile_height", "overlap"}
              /\ b.tile_width = IF preset_args.tile_width = None THEN t.tile_width
                                ELSE preset_args.tile_width[1]
              /\ b.tile_height = IF preset_args.tile_height = None THEN t.tile_height
                                 ELSE preset_args.tile_height[1]
              /\ b.overlap = IF preset_args.overlap = None THEN t.overlap
                             ELSE preset_args.overlap[1]
        /\ (preset_args.preset_name = claude /\ preset_args.tile_height = None
              /\ preset_args.overlap = None) =>
              /\ preset_args.tile_width = None =>
                    preset_result.value = Bundle(1568, 1568, 50)
              /\ preset_args.tile_width = Some(1000) =>
                    preset_result.value = Bundle(1000, 1568, 50)

\* 'gemini' with the overlap overridden by 0 and the tile width by 1000, the
\* tile height left to the preset
C9_Witness ==
    /\ PresetDone
    /\ preset_args.preset_name = gemini
    /\ preset_args.overlap = Some(0)
    /\ preset_args.tile_width = Some(1000)
    /\ preset_args.tile_height = None
    /\ preset_result = Returned(Bundle(1000, 3072, 0))

\* needle occurs in hay
Contains(hay, needle) ==
    \E i \in 1..(Len(hay) - Len(needle) + 1) :
        SubSeq(hay, i, i + Len(needle) - 1) = needle

\* C10: any casing of a preset name gives what the lower-case name gives, and
\* every other name raises an error that lists all valid names and returns
\* no bundle.
C10_CaseInsensitiveLookupOrError ==
    PresetDone =>
        /\ AskedIsRecognized =>
              preset_result =
                  apply_vision_preset(PresetTable, AskedNameLowerCased,
                                      preset_args.tile_width, preset_args.tile_height,
                                      preset_args.overlap)
        /\ AskedIsRecognized => IsReturned(preset_result)
        /\ ~AskedIsRecognized =>
              /\ IsRaised(preset_result) /\ ~IsReturned(preset_result)
              /\ preset_result.raised = "ValueError"
              /\ preset_result.what.preset_name = preset_args.preset_name
              /\ \A name \in DOMAIN PresetTable :
                    Contains(preset_result.what.valid_presets, name)

\* 'GpT4v' was looked up and found
C10_Witness ==
    /\ PresetDone
    /\ preset_args.preset_name = <<"G", "p", "T", "4", "v">>
    /\ IsReturned(preset_result)
    /\ preset_result.value.tile_width = 2048

\* 'qwen' was refused with the three names listed in sorted order
C10_UnknownNameRefused ==
    /\ PresetDone
    /\ preset_args.preset_name = <<"q", "w", "e", "n">>
    /\ IsRaised(preset_result)
    /\ preset_result.what.valid_presets = claude \o <<",", " ">> \o gemini \o <<",", " ">> \o gpt4v

----------------------------------------------------------------------------
(* Properties of ScreenshotService.capture_tiled *)

\* capture_tiled has measured the page
CaptureMeasured == "pc" \in DOMAIN cap /\ cap.page_width > 0

\* the grid calculate_tile_grid generates for the measured page
GeneratedGrid ==
    calculate_tile_grid(GridArgs(cap.page_height, cap.effective_tile_height,
                                 Some(cap.effective_overlap), Some(cap.page_width),
                                 Some(cap.effective_tile_width))).value

CaptureRejected ==
    /\ IsRaised(cap_outcome)
    /\ cap_outcome.raised = "HTTPException"

CaptureResponse == cap_outcome.value

\* the page was scrolled or a screenshot of it was taken
TileTouched ==
    \E i \in DOMAIN page_log : page_log[i].op \in {"scrollTo", "screenshot"}

\* C4: a grid with more tiles than request.max_tile_count is rejected with
\* HTTP 400 as soon as it is computed, with no tile scrolled to or captured
\* and no response, truncated or not; a grid within the ceiling is never
\* rejected, and the response then holds exactly one Tile per generated
\* TileBounds, in order, with total_tiles the size of the grid.
C4_OverCeilingRejectedElseOneTilePerBounds ==
    CaptureMeasured =>
        IF Len(GeneratedGrid) > cap_request.max_tile_count
        THEN /\ cap.tiles = <<>>
             /\ ~TileTouched
             /\ ~IsReturned(cap_outcome)
             /\ cap.pc # "tiles"
             /\ cap.pc = "left" =>
                   /\ CaptureRejected
                   /\ cap_outcome.what.status_code = 400
                   /\ cap_outcome.what.needed = Len(GeneratedGrid)
                   /\ ~cap.context_open
        ELSE /\ ~CaptureRejected
             /\ IsReturned(cap_outcome) =>
                   /\ Len(CaptureResponse.tiles) = Len(GeneratedGrid)
                   /\ CaptureResponse.tile_config.total_tiles = Len(GeneratedGrid)
                   /\ \A i \in DOMAIN GeneratedGrid :
                         /\ CaptureResponse.tiles[i].bounds = GeneratedGrid[i]
                         /\ CaptureResponse.tiles[i].index = i - 1
                         /\ CaptureResponse.tiles[i].image.width = GeneratedGrid[i].width
                         /\ CaptureResponse.tiles[i].image.height = GeneratedGrid[i].height

\* a six-tile grid refused under a ceiling of five
C4_Witness ==
    /\ CaptureMeasured
    /\ Len(GeneratedGrid) = 6
    /\ cap_request.max_tile_count = 5
    /\ CaptureRejected
    /\ cap_outcome.what.status_code = 400
    /\ page_log = <<PageCall("new_context", 800, 600), PageCall("close", 0, 0)>>

\* a six-tile grid captured in full under the default ceiling
C4_WitnessCaptured ==
    /\ CaptureMeasured
    /\ cap_request.max_tile_count = 20
    /\ IsReturned(cap_outcome)
    /\ Len(GeneratedGrid) = 6
    /\ Len(CaptureResponse.tiles) = 6

----------------------------------------------------------------------------
(* Properties of the dicts shared between calls *)

LastPresetCall == last_call.op = "apply_vision_preset"

LastAdjustCall == last_call.op \in {"adjust_element_coordinates", "adjust_elements_batch"}

\* some dict a call returned has been overwritten by the caller
CallerHasMutated ==
    \E i \in DOMAIN caller_refs :
       \E key \in CallerKeys(heap[caller_refs[i]]) :
          heap[caller_refs[i]][key] = CallerValue(heap[caller_refs[i]])

\* C11: whatever the calls made and whatever the caller stored in the dicts
\* they returned, the rectangles passed in still hold what the caller put
\* there, VISION_AI_PRESETS holds the values the module gave it, and each
\* apply_vision_preset call returned what it returns on the untouched table.
C11_InputsAndPresetsNeverChange ==
    /\ \A id \in CallerRectIds : heap[id] = InitialHeap[id]
    /\ VISION_AI_PRESETS = PresetTable
    /\ \A name \in DOMAIN PresetIds : heap[PresetIds[name]] = PresetTable[name]
    /\ LastPresetCall =>
          LET args == last_call.args
              expected == apply_vision_preset(PresetTable, args.preset_name,
                                              args.tile_width, args.tile_height,
                                              args.overlap)
          IN IF IsRaised(expected) THEN IsRaised(last_call.result)
             ELSE /\ IsReturned(last_call.result)
                  /\ Val(last_call.content) = expected.value
    /\ LastAdjustCall =>
          \A i \in DOMAIN last_call.result : last_call.result[i] \notin CallerRectIds

\* the caller overwrote the dict one apply_vision_preset call returned, and a
\* later call for the same preset returned the preset's values
C11_Witness ==
    /\ Len(caller_refs) = 2
    /\ heap[caller_refs[1]] = Bundle(9999, 1568, 9999)
    /\ LastPresetCall
    /\ last_call.args.preset_name = claude
    /\ IsReturned(last_call.result)
    /\ last_call.result.value = caller_refs[2]
    /\ heap[caller_refs[2]] = Bundle(1568, 1568, 50)

\* the caller overwrote the rectangle an adjustment returned
C11_WitnessAdjusted ==
    /\ LastAdjustCall
    /\ \E i \in DOMAIN caller_refs :
          /\ "x" \in DOMAIN heap[caller_refs[i]]
          /\ heap[caller_refs[i]].x = FromInt(-1)

----------------------------------------------------------------------------
(* Properties of generate_vision_hints *)

HintsDone == pc = "done" /\ "pending" \notin DOMAIN hints_result

HintsReturned == HintsDone /\ IsReturned(hints_result)

Asked == Val(hints_args)

Hints == hints_result.value

AskedMaxDimension == Max(Asked.image_width, Asked.image_height)

\* the dimensions the tiling advice is about: the document's where the
\* caller gave them, the image's otherwise
AskedTilingWidth ==
    IF IsNone(Asked.document_width) THEN Asked.image_width ELSE Val(Asked.document_width)

AskedTilingHeight ==
    IF IsNone(Asked.document_height) THEN Asked.image_height ELSE Val(Asked.document_height)

AskedMaxTilingDimension == Max(AskedTilingWidth, AskedTilingHeight)

Recognized(name) == name \in DOMAIN VISION_MODEL_LIMITS

SmallestLimit ==
    CHOOSE l \in {VISION_MODEL_LIMITS[m] : m \in DOMAIN VISION_MODEL_LIMITS} :
        \A m \in DOMAIN VISION_MODEL_LIMITS : l <= VISION_MODEL_LIMITS[m]

\* the limit of the profile selected, with the given limit for the case that
\* neither the caller's model nor the configured default is recognized
SelectedLimit(fallback) ==
    IF ~IsNone(Asked.target_model) /\ Recognized(Val(Asked.target_model))
    THEN VISION_MODEL_LIMITS[Val(Asked.target_model)]
    ELSE IF Recognized(VISION_DEFAULT_MODEL) THEN VISION_MODEL_LIMITS[VISION_DEFAULT_MODEL]
    ELSE fallback

\* the result is the one that resizes and tiles against limit
ResultUsesLimit(limit) ==
    /\ Hints.estimated_resize_factor =
          IF AskedMaxDimension <= limit THEN FromInt(1)
          ELSE FloatDiv(FromInt(limit), FromInt(AskedMaxDimension))
    /\ IsNone(Hints.recommended_width) = (AskedMaxDimension <= limit)
    /\ IsNone(Hints.recommended_height) = (AskedMaxDimension <= limit)
    /\ ~IsNone(Hints.recommended_width) => Val(Hints.recommended_width) <= limit
    /\ ~IsNone(Hints.recommended_height) => Val(Hints.recommended_height) <= limit
    /\ Hints.tiling_recommended = (AskedMaxTilingDimension > limit)
    /\ Hints.tiling_recommended =>
          /\ Val(Hints.suggested_tile_size).width <= limit
          /\ Val(Hints.suggested_tile_size).height <= limit

WithinDimension(width, height, model) == Max(width, height) <= VISION_MODEL_LIMITS[model]

WithinPixels(width, height, model) ==
    width * height <= VISION_MODEL_CONSTRAINTS[model].max_pixels

WholeAspectLimit == (claude :> 4) @@ (gemini :> 5) @@ (gpt4v :> 4) @@ (qwen_vl_max :> 6)

WithinAspect(width, height, model) ==
    Max(width, height) <= WholeAspectLimit[model] * Min(width, height)

Compatible(width, height, model) ==
    /\ WithinDimension(width, height, model)
    /\ WithinPixels(width, height, model)
    /\ WithinAspect(width, height, model)

FirstViolated(width, height, model) ==
    IF ~WithinDimension(width, height, model) THEN "max_dimension"
    ELSE IF ~WithinPixels(width, height, model) THEN "max_pixels"
    ELSE "max_aspect_ratio"

CompatibilityChecked == pc = "checked"

CheckedFlag == hints_result.value[1]

CheckedReason == hints_result.value[2]

ReasonGivesValues(reason, width, height, model) ==
    /\ reason.model = model
    /\ reason.constraint = "max_dimension" =>
          /\ reason.offending = Max(width, height)
          /\ reason.limiting = VISION_MODEL_LIMITS[model]
    /\ reason.constraint = "max_pixels" =>
          /\ reason.offending = width * height
          /\ reason.limiting = VISION_MODEL_CONSTRAINTS[model].max_pixels
    /\ reason.constraint = "max_aspect_ratio" =>
          /\ reason.offending = FloatDiv(FromInt(Max(width, height)), FromInt(Min(width, height)))
          /\ reason.limiting = FromInt(WholeAspectLimit[model])

FlagOf(model) ==
    IF model = claude THEN Hints.claude_compatible
    ELSE IF model = gemini THEN Hints.gemini_compatible
    ELSE IF model = gpt4v THEN Hints.gpt4v_compatible
    ELSE Hints.qwen_compatible

C13_WitnessPixels ==
    /\ CompatibilityChecked
    /\ Asked.model = claude
    /\ VISION_MODEL_LIMITS[claude] = 2000
    /\ Asked.width = 1800 /\ Asked.height = 1800
    /\ ~CheckedFlag
    /\ Val(CheckedReason).constraint = "max_pixels"

\* 1568x1568 is at claude's dimension and pixel limits, 1200x300 at its
\* aspect limit: both compatible
C13_WitnessAtLimit ==
    /\ CompatibilityChecked
    /\ Asked.model = claude
    /\ VISION_MODEL_LIMITS[claude] = 1568
    /\ Asked \in {[width |-> 1568, height |-> 1568, model |-> claude],
                  [width |-> 1200, height |-> 300, model |-> claude]}
    /\ CheckedFlag

\* C14: tiling is recommended iff the largest tiling dimension (a document
\* dimension where the caller gave it, the image's otherwise) is above the
\* target's max dimension, whatever the pixel count and the aspect ratio;
\* a result that does not recommend tiling has a tile count of 1 and neither
\* a tile size nor a reason.
C14_TilingIffTilingDimensionOverLimit ==
    HintsReturned =>
       /\ Hints.tiling_recommended =
             (AskedMaxTilingDimension > SelectedLimit(VISION_MODEL_LIMITS[claude]))
       /\ ~Hints.tiling_recommended =>
             /\ Hints.suggested_tile_count = 1
             /\ IsNone(Hints.suggested_tile_size)
             /\ IsNone(Hints.tiling_reason)

\* an 800x600 capture of a 1200x5000 document: the image fits claude, the
\* document does not
C14_Witness ==
    /\ HintsReturned
    /\ Asked.image_width = 800
    /\ Asked.document_height = Some(5000)
    /\ IsNone(Asked.target_model)
    /\ VISION_DEFAULT_MODEL = claude
    /\ VISION_MODEL_LIMITS[claude] = 1568
    /\ Hints.claude_compatible
    /\ Hints.tiling_recommended

\* 3500x500 is too wide for qwen-vl-max's aspect ratio and within its max
\* dimension: not compatible, and no tiling
C14_WitnessAspectIgnored ==
    /\ HintsReturned
    /\ Asked.image_width = 3500
    /\ IsNone(Asked.document_width) /\ IsNone(Asked.document_height)
    /\ Asked.target_model = Some(qwen_vl_max)
    /\ ~Hints.qwen_compatible
    /\ ~Hints.tiling_recommended
    /\ Hints.suggested_tile_count = 1

TargetLimitOfCall == SelectedLimit(VISION_MODEL_LIMITS[claude])

TilingExpected == AskedMaxTilingDimension > TargetLimitOfCall

\* the configured overlap in whole percent (the configured values are whole)
OverlapPercent == Trunc(VISION_TILE_OVERLAP_PERCENT)

Ceil(numerator, denominator) == (numerator + denominator - 1) \div denominator

\* floor(target_limit * (1 - overlap_percent / 100)) in whole numbers
ExactEffectiveTileDim == (TargetLimitOfCall * (100 - OverlapPercent)) \div 100

ExactTilesX == Ceil(AskedTilingWidth, ExactEffectiveTileDim)

ExactTilesY == Ceil(AskedTilingHeight, ExactEffectiveTileDim)

DividedByZero == IsRaised(hints_result) /\ hints_result.raised = "ZeroDivisionError"

\* C15 as claimed: where tiling is due the computation divides by no zero
\* whatever overlap is configured, and the result has tiles_x * tiles_y
\* tiles for tiles = ceil(dimension / floor(limit * (1 - overlap / 100))) and
\* tiles of min(limit, ceil(dimension / tiles)) pixels, which are within the
\* limit and cover the dimension.
C15_TileGridDefinedForEveryOverlap ==
    (HintsDone /\ TilingExpected) =>
       /\ ~DividedByZero
       /\ HintsReturned =>
             /\ Hints.tiling_recommended
             /\ Val(Hints.tiling_reason).tiles_x = ExactTilesX
             /\ Val(Hints.tiling_reason).tiles_y = ExactTilesY
             /\ Hints.suggested_tile_count = ExactTilesX * ExactTilesY
             /\ Val(Hints.suggested_tile_size).width =
                   Min(TargetLimitOfCall, Ceil(AskedTilingWidth, ExactTilesX))
             /\ Val(Hints.suggested_tile_size).height =
                   Min(TargetLimitOfCall, Ceil(AskedTilingHeight, ExactTilesY))
             /\ Val(Hints.suggested_tile_size).width <= TargetLimitOfCall
             /\ Val(Hints.suggested_tile_size).height <= TargetLimitOfCall
             /\ ExactTilesX * Val(Hints.suggested_tile_size).width >= AskedTilingWidth
             /\ ExactTilesY * Val(Hints.suggested_tile_size).height >= AskedTilingHeight

\* with VISION_TILE_OVERLAP_PERCENT=100 the effective tile dimension is 0 and
\* a 1920x1080 image, which needs tiling, divides by it
C15_Witness ==
    /\ HintsDone
    /\ OverlapPercent = 100
    /\ Asked.image_width = 1920
    /\ TilingExpected
    /\ DividedByZero

\* the same statement for the overlaps that leave a tile dimension: it holds
C15_TileGridWhereReturned ==
    (HintsReturned /\ TilingExpected) =>
       /\ Hints.tiling_recommended
       /\ Val(Hints.tiling_reason).tiles_x = ExactTilesX
       /\ Val(Hints.tiling_reason).tiles_y = ExactTilesY
       /\ Hints.suggested_tile_count = ExactTilesX * ExactTilesY
       /\ Val(Hints.suggested_tile_size).width =
             Min(TargetLimitOfCall, Ceil(AskedTilingWidth, ExactTilesX))
       /\ Val(Hints.suggested_tile_size).height =
             Min(TargetLimitOfCall, Ceil(AskedTilingHeight, ExactTilesY))

\* the models tiling_reason names: those of its list, or the target where
\* the list is empty and the text gives the target's limit instead
NamedInReason ==
    LET reason == Val(Hints.tiling_reason)
    IN IF reason.exceeded_models # <<>>
       THEN {reason.exceeded_models[i].name : i \in DOMAIN reason.exceeded_models}
       ELSE IF reason.effective_target \in DOMAIN ReasonNames
       THEN {ReasonNames[reason.effective_target]}
       ELSE {}

ModelsBelowTiledDimension ==
    {model \in DOMAIN VISION_MODEL_LIMITS :
        VISION_MODEL_LIMITS[model] < AskedMaxTilingDimension}

\* C16 as claimed: where tiling is recommended, tiling_reason names exactly
\* the models whose max dimension is smaller than the largest dimension of
\* what is tiled (the document where given, else the image).
C16_ReasonNamesModelsBelowTiledDimension ==
    (HintsReturned /\ Hints.tiling_recommended) =>
       NamedInReason = {ReasonNames[model] : model \in ModelsBelowTiledDimension}

\* a 3500x500 image is within qwen-vl-max's 4096 pixels, and the reason lists
\* Qwen-VL (4096px) as exceeded, for the image's aspect ratio
C16_Witness ==
    /\ HintsReturned
    /\ Hints.tiling_recommended
    /\ Asked.image_width = 3500
    /\ IsNone(Asked.document_width) /\ IsNone(Asked.document_height)
    /\ VISION_MODEL_LIMITS[qwen_vl_max] = 4096
    /\ "Qwen-VL" \in NamedInReason

\* an 800x600 capture of a 1200x5000 document: every model's limit is below
\* 5000 and the list of exceeded models is empty, the image being compatible
\* with all four
C16_WitnessDocument ==
    /\ HintsReturned
    /\ Hints.tiling_recommended
    /\ Asked.image_width = 800
    /\ Asked.document_height = Some(5000)
    /\ ModelsBelowTiledDimension = DOMAIN VISION_MODEL_LIMITS
    /\ Val(Hints.tiling_reason).exceeded_models = <<>>

ResizeNeeded == AskedMaxDimension > TargetLimitOfCall

\* value is an integer nearest to dimension * target_limit / max(w, h)
IsNearest(value, dimension) ==
    LET exact == dimension * TargetLimitOfCall
        scaled == value * AskedMaxDimension
    IN 2 * (IF scaled >= exact THEN scaled - exact ELSE exact - scaled) <= AskedMaxDimension

RecommendationRefused ==
    /\ IsRaised(hints_result)
    /\ hints_result.raised = "ValidationError"
    /\ hints_result.what \cap {"recommended_width", "recommended_height"} # {}

\* C17 as claimed: where the image's largest side is above the target limit,
\* recommended_width and recommended_height are the dimensions times
\* target_limit / max(w, h) rounded to the nearest integer, positive and at
\* most the target limit; where it is not, both are absent.
C17_RecommendedIsRoundedAndPositive ==
    /\ (HintsDone /\ ResizeNeeded) =>
          /\ ~RecommendationRefused
          /\ HintsReturned =>
                /\ ~IsNone(Hints.recommended_width)
                /\ ~IsNone(Hints.recommended_height)
                /\ IsNearest(Val(Hints.recommended_width), Asked.image_width)
                /\ IsNearest(Val(Hints.recommended_height), Asked.image_height)
                /\ Val(Hints.recommended_width) > 0
                /\ Val(Hints.recommended_height) > 0
                /\ Val(Hints.recommended_width) <= TargetLimitOfCall
                /\ Val(Hints.recommended_height) <= TargetLimitOfCall
    /\ (HintsReturned /\ ~ResizeNeeded) =>
          /\ IsNone(Hints.recommended_width)
          /\ IsNone(Hints.recommended_height)

\* 2000x1001 against 1568: 1001 * 0.784 is 784.784, and the height
\* recommended is 784
C17_Witness ==
    /\ HintsReturned
    /\ Asked.image_width = 2000 /\ Asked.image_height = 1001
    /\ TargetLimitOfCall = 1568
    /\ Hints.recommended_width = Some(1568)
    /\ Hints.recommended_height = Some(784)

\* 2000x1 against 1568: the height comes to 0 and VisionAIHints refuses it
C17_WitnessRefused ==
    /\ HintsDone
    /\ Asked.image_width = 2000 /\ Asked.image_height = 1
    /\ TargetLimitOfCall = 1568
    /\ RecommendationRefused

\* what the code computes: the truncated products, absent without a resize
C17_RecommendedIsTruncated ==
    HintsReturned =>
       IF ResizeNeeded
       THEN LET scale == FloatDiv(FromInt(TargetLimitOfCall), FromInt(AskedMaxDimension))
            IN /\ Hints.recommended_width = Some(Trunc(FloatMul(FromInt(Asked.image_width), scale)))
               /\ Hints.recommended_height = Some(Trunc(FloatMul(FromInt(Asked.image_height), scale)))
               /\ Val(Hints.recommended_width) \in 1..TargetLimitOfCall
               /\ Val(Hints.recommended_height) \in 1..TargetLimitOfCall
       ELSE IsNone(Hints.recommended_width) /\ IsNone(Hints.recommended_height)

IsPositive(a) == ~a.neg /\ a.bits # {}

AtMostOne(a) == ~FloatLess(FromInt(1), a)

\* C18: estimated_resize_factor is 1.0 where the image's largest side is at
\* most the target limit, the limit itself included, and target_limit /
\* max(w, h) otherwise; it is above 0 and at most 1, and
\* coordinate_accuracy equals it.
C18_ResizeFactorAndAccuracy ==
    HintsReturned =>
       /\ Hints.estimated_resize_factor =
             IF AskedMaxDimension <= TargetLimitOfCall THEN FromInt(1)
             ELSE FloatDiv(FromInt(TargetLimitOfCall), FromInt(AskedMaxDimension))
       /\ IsPositive(Hints.estimated_resize_factor)
       /\ AtMostOne(Hints.estimated_resize_factor)
       /\ ResizeNeeded => FloatLess(Hints.estimated_resize_factor, FromInt(1))
       /\ Hints.coordinate_accuracy = Hints.estimated_resize_factor

\* 1920x1080 against claude's 1568: the factor is 1568 / 1920, 0.8166..., and
\* so is the accuracy
C18_Witness ==
    /\ HintsReturned
    /\ Asked.image_width = 1920
    /\ TargetLimitOfCall = 1568
    /\ Trunc(FloatMul(Hints.estimated_resize_factor, FromInt(10000))) = 8166
    /\ Hints.coordinate_accuracy = Hints.estimated_resize_factor

\* 1568x1568 is at the limit: the factor is 1.0
C18_WitnessAtLimit ==
    /\ HintsReturned
    /\ Asked.image_width = 1568 /\ Asked.image_height = 1568
    /\ TargetLimitOfCall = 1568
    /\ Hints.estimated_resize_factor = FromInt(1)
    /\ Hints.coordinate_accuracy = FromInt(1)

ImpactOf(hints, model) ==
    IF model = claude THEN hints.resize_impact_claude
    ELSE IF model = gemini THEN hints.resize_impact_gemini
    ELSE IF model = gpt4v THEN hints.resize_impact_gpt4v
    ELSE hints.resize_impact_qwen

\* (max(w, h) - limit) / max(w, h) * 100 in thousandths of a percent, rounded down
ExactImpactThousandths(model) ==
    ((AskedMaxDimension - VISION_MODEL_LIMITS[model]) * 100000) \div AskedMaxDimension

ImpactIsDue(impact, model) ==
    IF AskedMaxDimension <= VISION_MODEL_LIMITS[model]
    THEN impact = FromInt(0)
    ELSE /\ impact = FloatMul(FloatDiv(FromInt(AskedMaxDimension - VISION_MODEL_LIMITS[model]),
                                       FromInt(AskedMaxDimension)), FromInt(100))
         /\ Trunc(FloatMul(impact, FromInt(1000))) \in
               {ExactImpactThousandths(model) - 1, ExactImpactThousandths(model)}

\* another target_model for the same call: the next of the four in turn
OtherTarget(target) ==
    IF IsNone(target) THEN Some(gemini)
    ELSE IF Val(target) = gemini THEN Some(qwen_vl_max)
    ELSE IF Val(target) = qwen_vl_max THEN Some(<<"C", "l", "a", "u", "d", "e">>)
    ELSE None

\* the result of the same call with the other target_model
HintsForOtherTarget ==
    generate_vision_hints(VISION_MODEL_LIMITS, VISION_DEFAULT_MODEL, VISION_TILE_OVERLAP_PERCENT,
                          [Asked EXCEPT !.target_model = OtherTarget(Asked.target_model)])

\* C19: each model's resize impact is 0 where the image's largest side is
\* within the model's limit and (max(w, h) - limit) / max(w, h) * 100
\* otherwise, and the call that differs only in target_model returns the
\* same four impacts.
C19_ImpactPerModelWhateverTheTarget ==
    HintsReturned =>
       /\ \A model \in DOMAIN VISION_MODEL_LIMITS : ImpactIsDue(ImpactOf(Hints, model), model)
       /\ LET other == HintsForOtherTarget
          IN IsReturned(other) =>
                \A model \in DOMAIN VISION_MODEL_LIMITS :
                   ImpactOf(other.value, model) = ImpactOf(Hints, model)

\* 1920x1080 with gemini as the target: the impact for claude is 18.33...
\* and the impact for gemini 0
C19_Witness ==
    /\ HintsReturned
    /\ Asked.image_width = 1920 /\ Asked.image_height = 1080
    /\ Asked.target_model = Some(gemini)
    /\ VISION_MODEL_LIMITS[claude] = 1568
    /\ Trunc(FloatMul(Hints.resize_impact_claude, FromInt(100))) = 1833
    /\ Hints.resize_impact_gemini = FromInt(0)
    /\ Hints.estimated_resize_factor = FromInt(1)

----------------------------------------------------------------------------
(* Properties of the configuration of app/quality_assessment.py *)

ConfigLoaded == pc \in {"loaded", "checked"}

EnvSet(key) == key \in DOMAIN environ

EnvSetNonEmpty(key) == key \in DOMAIN environ /\ environ[key] # <<>>

\* what vision_model_config.json holds for a setting, if it is there and is
\* JSON
FileSection(section) ==
    IF IsNone(config_file) THEN <<>>
    ELSE IF ~Val(config_file).parsable THEN <<>>
    ELSE IF section \notin DOMAIN Val(config_file).json THEN <<>>
    ELSE Val(config_file).json[section]

FileLimit(model) ==
    IF model \notin DOMAIN FileSection("models") THEN None
    ELSE IF "max_dimension" \notin DOMAIN FileSection("models")[model] THEN None
    ELSE Some(FileSection("models")[model].max_dimension)

FileDefault(setting) ==
    IF setting \notin DOMAIN FileSection("defaults") THEN None
    ELSE Some(FileSection("defaults")[setting])

\* the three settings resolved with the given tests of "the variable is set"
ResolvedBy(LimitSet(_), DefaultSet(_)) ==
    /\ \A model \in DOMAIN DefaultModelLimits :
          Returned(VISION_MODEL_LIMITS[model]) =
             IF LimitSet(EnvKey(model)) THEN ParseInt(environ[EnvKey(model)])
             ELSE IF ~IsNone(FileLimit(model)) THEN Returned(Val(FileLimit(model)))
             ELSE Returned(DefaultModelLimits[model])
    /\ VISION_DEFAULT_MODEL =
          IF DefaultSet(VISION_DEFAULT_MODEL_KEY) THEN environ[VISION_DEFAULT_MODEL_KEY]
          ELSE IF ~IsNone(FileDefault("target_model")) THEN Val(FileDefault("target_model"))
          ELSE claude
    /\ Returned(VISION_TILE_OVERLAP_PERCENT) =
          IF DefaultSet(VISION_TILE_OVERLAP_PERCENT_KEY)
          THEN ParseFloat(environ[VISION_TILE_OVERLAP_PERCENT_KEY])
          ELSE IF ~IsNone(FileDefault("tile_overlap_percent"))
          THEN Returned(FromInt(Val(FileDefault("tile_overlap_percent"))))
          ELSE Returned(FromInt(DefaultTileOverlapPercent))

C20_WitnessEmpty ==
    /\ ConfigLoaded
    /\ EnvSet(VISION_DEFAULT_MODEL_KEY)
    /\ environ[VISION_DEFAULT_MODEL_KEY] = <<>>
    /\ FileDefault("target_model") = Some(gpt4v)
    /\ VISION_DEFAULT_MODEL = gpt4v

\* VISION_CLAUDE_MAX_DIMENSION is set and empty: the import raises ValueError
C20_WitnessLoadFails ==
    /\ pc = "load_failed"
    /\ EnvSet(EnvKey(claude))
    /\ environ[EnvKey(claude)] = <<>>
    /\ IsRaised(hints_result)

\* the constraints the file gives for the model of the call, each with the
\* built-in value where the file gives none
FileConstraints == _get_model_constraints_from_config(_MODEL_CONFIG, Asked.model)

PixelsLimitWithFile ==
    IF IsNone(FileConstraints.max_pixels)
    THEN VISION_MODEL_CONSTRAINTS[Asked.model].max_pixels
    ELSE Val(FileConstraints.max_pixels)

AspectLimitWithFile ==
    IF IsNone(FileConstraints.max_aspect_ratio)
    THEN WholeAspectLimit[Asked.model]
    ELSE Val(FileConstraints.max_aspect_ratio)

\* C21 as claimed: the compatibility check of a model uses the max_pixels
\* and the max_aspect_ratio the configuration file gives for that model,
\* and the built-in values where the file gives none.
C21_FileConstraintsOverrideBuiltIn ==
    CompatibilityChecked =>
       CheckedFlag =
          /\ WithinDimension(Asked.width, Asked.height, Asked.model)
          /\ Asked.width * Asked.height <= PixelsLimitWithFile
          /\ Max(Asked.width, Asked.height) <= AspectLimitWithFile * Min(Asked.width, Asked.height)

\* the file allows gemini 1000000 pixels; 1568x1568 has 2458624 and is found
\* compatible with gemini
C21_Witness ==
    /\ CompatibilityChecked
    /\ Asked.model = gemini
    /\ Asked.width = 1568 /\ Asked.height = 1568
    /\ FileConstraints.max_pixels = Some(1000000)
    /\ CheckedFlag

\* the file allows gemini an aspect ratio of 2; 1500x300 has 5 and is found
\* compatible with gemini
C21_WitnessAspect ==
    /\ CompatibilityChecked
    /\ Asked.model = gemini
    /\ Asked.width = 1500 /\ Asked.height = 300
    /\ FileConstraints.max_aspect_ratio = Some(2)
    /\ CheckedFlag

----------------------------------------------------------------------------
(* Further properties of calculate_tile_grid *)

\* the page sizes from p upwards that are compared with p
LargerPages(p) == IF p <= MaxPage THEN p..MaxPage ELSE {p, p + 1}

\* the result of the same call for another page size
GridForPage(page_width, page_height) ==
    calculate_tile_grid([grid_args EXCEPT !.page_width = Some(page_width),
                                          !.page_height = page_height])

\* C22: with the viewport and the overlap fixed, a valid page that is at
\* least as wide and at least as high gets at least as many tiles.
C22_TileCountMonotoneInPageSize ==
    GridReturned =>
       LET e == EffectiveArgs(grid_args)
       IN \A page_width \in LargerPages(e.page_width), page_height \in LargerPages(e.page_height) :
             LET larger == GridForPage(page_width, page_height)
             IN /\ IsReturned(larger)
                /\ Len(GridTiles) <= Len(larger.value)

\* a 1x6 page under a 3x1 viewport has 6 tiles, and the wider 3x6 page has 6
\* as well, 6x6 more
C22_Witness ==
    /\ GridReturned
    /\ grid_args = GridArgs(6, 1, Some(0), Some(1), Some(3))
    /\ Len(GridTiles) = 6
    /\ Len(GridForPage(3, 6).value) = 6
    /\ Len(GridForPage(6, 6).value) = 12

TilesOfRow(row) == {t \in TileSet : t.row = row}

\* C23 as claimed: a call without viewport_width returns a single column,
\* whatever page_width is: each row has one tile, in column 0 at x = 0 and as
\* wide as the page.
C23_NoViewportWidthGivesSingleColumn ==
    (GridReturned /\ IsNone(grid_args.viewport_width)) =>
       /\ \A t \in TileSet :
             /\ t.column = 0
             /\ t.x = 0
             /\ t.width = EffectiveArgs(grid_args).page_width
       /\ \A t \in TileSet : Cardinality(TilesOfRow(t.row)) = 1

\* page_width=2400 without viewport_width: the tiles are 1200 wide and the
\* row has three columns
C23_Witness ==
    /\ GridReturned
    /\ grid_args = GridArgs(1000, 800, Some(50), Some(2400), None)
    /\ \E t \in TileSet : t.column = 2 /\ t.x = 2300 /\ t.width = 100
    /\ GridTiles[1].width = DefaultViewportWidth

\* what holds: without viewport_width and page_width the page is 1200 wide
\* and the grid a single column of that width
C23_NoWidthsGivesSingleColumn ==
    (GridReturned /\ IsNone(grid_args.viewport_width) /\ IsNone(grid_args.page_width)) =>
       /\ \A t \in TileSet : t.column = 0 /\ t.x = 0 /\ t.width = DefaultViewportWidth
       /\ \A t \in TileSet : Cardinality(TilesOfRow(t.row)) = 1

----------------------------------------------------------------------------
(* Properties of calculate_per_tile_wait *)

WaitDone == pc = "done" /\ "pending" \notin DOMAIN wait_result

WaitMinimum ==
    IF IsNone(wait_args.min_wait) THEN DefaultMinWait ELSE Val(wait_args.min_wait)

\* share is total // tile_count: the whole number whose multiple by
\* tile_count is the last at or below total
IsShare(share, total, tile_count) ==
    share * tile_count <= total /\ total < (share + 1) * tile_count

\* C24: for a tile_count of at least 1 the call returns min_wait when the
\* total is 0 or less, and else the larger of min_wait and total //
\* tile_count; the result is never below min_wait, and the calls of the
\* docstring return 250, 50 and 50.
C24_PerTileWaitIsShareOrMinimum ==
    (WaitDone /\ wait_args.tile_count >= 1) =>
       /\ IsReturned(wait_result)
       /\ wait_result.value >= WaitMinimum
       /\ wait_args.wait_for_timeout <= 0 => wait_result.value = WaitMinimum
       /\ wait_args.wait_for_timeout > 0 =>
             \/ /\ wait_result.value = WaitMinimum
                /\ wait_args.wait_for_timeout < (WaitMinimum + 1) * wait_args.tile_count
             \/ /\ wait_result.value > WaitMinimum
                /\ IsShare(wait_result.value, wait_args.wait_for_timeout, wait_args.tile_count)
       /\ wait_args = WaitArgs(1000, 4, None) => wait_result.value = 250
       /\ wait_args = WaitArgs(100, 4, None) => wait_result.value = 50
       /\ wait_args = WaitArgs(0, 4, None) => wait_result.value = 50

\* 11 ms over 3 tiles with a minimum of 2: each tile waits 3
C24_Witness ==
    /\ WaitDone
    /\ wait_args = WaitArgs(11, 3, Some(2))
    /\ wait_result.value = 3

\* 100 ms over 4 tiles is 25 each, below the default minimum of 50
C24_WitnessMinimum ==
    /\ WaitDone
    /\ wait_args = WaitArgs(100, 4, None)
    /\ wait_result.value = 50

----------------------------------------------------------------------------
(* Further properties of assess_extraction_quality: the metrics *)

Metrics == quality_result.value.metrics

\* the tag of element i, every character lower-cased by the table
GivenTagLower(i) ==
    [k \in 1..Len(GivenElements[i].tag_name) |-> LowerChar(GivenElements[i].tag_name[k])]

GivenWithTag(t) == {i \in 1..GivenCount : GivenTagLower(i) = t}

GivenHeadings ==
    {i \in 1..GivenCount :
        LET t == GivenTagLower(i)
        IN Len(t) = 2 /\ t[1] = "h" /\ t[2] \in {"1", "2", "3", "4", "5", "6"}}

GivenVisible == {i \in 1..GivenCount : GivenElements[i].is_visible}

RECURSIVE SumOfDistribution(_, _)
SumOfDistribution(distribution, keys) ==
    IF keys = <<>> THEN 0
    ELSE distribution[Head(keys)] + SumOfDistribution(distribution, Tail(keys))

IsTrueMinimum(v) ==
    /\ \E i \in 1..GivenCount : Len(GivenElements[i].text) = v
    /\ \A i \in 1..GivenCount : Len(GivenElements[i].text) >= v

IsTrueMaximum(v) ==
    /\ \E i \in 1..GivenCount : Len(GivenElements[i].text) = v
    /\ \A i \in 1..GivenCount : Len(GivenElements[i].text) <= v

\* C25: for a collection of n >= 1 elements the metrics of the single pass
\* are those of a recomputation field by field over lower-cased tags:
\* element_count is n, visible_count + hidden_count is n, the values of
\* tag_distribution sum to n and its keys are unique_tags, unique_tag_count
\* is their number, heading_count is the number of h1..h6 elements and
\* has_headings says whether there is one, total_text_length is the sum of
\* the text lengths, and min_text_length <= max_text_length are the true
\* minimum and maximum.
C25_MetricsEqualRecomputation ==
    (QualityReturned /\ GivenCount >= 1) =>
        /\ Metrics.element_count = GivenCount
        /\ Metrics.visible_count = Cardinality(GivenVisible)
        /\ Metrics.visible_count + Metrics.hidden_count = GivenCount
        /\ DOMAIN Metrics.tag_distribution = GivenTags
        /\ \A t \in GivenTags : Metrics.tag_distribution[t] = Cardinality(GivenWithTag(t))
        /\ SumOfDistribution(Metrics.tag_distribution, Metrics.unique_tags) = GivenCount
        /\ {Metrics.unique_tags[i] : i \in 1..Len(Metrics.unique_tags)} = GivenTags
        /\ Len(Metrics.unique_tags) = Cardinality(GivenTags)
        /\ Metrics.unique_tag_count = Cardinality(GivenTags)
        /\ Metrics.heading_count = Cardinality(GivenHeadings)
        /\ Metrics.has_headings <=> Metrics.heading_count >= 1
        /\ Metrics.total_text_length = GivenTextLength
        /\ Metrics.min_text_length <= Metrics.max_text_length
        /\ IsTrueMinimum(Metrics.min_text_length)
        /\ IsTrueMaximum(Metrics.max_text_length)

\* elements tagged "H1", "div", "P", ... with a late "h3": "H1" and "h1"
\* style tags in mixed case, several headings, hidden and visible elements
\* and texts of two lengths
C25_Witness ==
    /\ QualityReturned
    /\ GivenCount >= 4
    /\ \E i \in 1..GivenCount : GivenElements[i].tag_name = <<"H", "1">>
    /\ Metrics.heading_count >= 3
    /\ Metrics.tag_distribution[<<"h", "1">>] >= 2
    /\ Metrics.hidden_count >= 1
    /\ Metrics.visible_count >= 1
    /\ Metrics.min_text_length < Metrics.max_text_length

\* "DIV", "div" and "Div" are one tag
C25_WitnessCase ==
    /\ QualityReturned
    /\ GivenCount >= 3
    /\ \E i, j \in 1..GivenCount :
          /\ GivenElements[i].tag_name = <<"D", "I", "V">>
          /\ GivenElements[j].tag_name = <<"d", "i", "v">>
    /\ Metrics.unique_tags = << <<"d", "i", "v">> >>
    /\ Metrics.tag_distribution[<<"d", "i", "v">>] = GivenCount

----------------------------------------------------------------------------
(* Further properties of ScreenshotService.capture_tiled: the preset *)

\* capture_tiled has applied a preset and settled its effective configuration
PresetApplied == cap.pc # "start" /\ ~IsNone(cap.applied_preset)

EffectiveField(f) ==
    IF f = "tile_width" THEN cap.effective_tile_width
    ELSE IF f = "tile_height" THEN cap.effective_tile_height
    ELSE cap.effective_overlap

\* C26: with a preset, a field the request supplies is the value used,
\* whatever that value is (1568 and 50 included), and a field it does not
\* supply takes the preset's value.
C26_SuppliedFieldsTakePrecedence ==
    PresetApplied =>
        \A f \in TileFields :
            EffectiveField(f) =
                IF f \in cap_request.model_fields_set THEN cap_request[f]
                ELSE VISION_AI_PRESETS[Val(cap.applied_preset)][f]

\* the request names Gemini and passes tile_width=1568 itself: the tiles are
\* the preset's 3072 wide
C26_Witness ==
    /\ PresetApplied
    /\ cap.applied_preset = Some(gemini)
    /\ "tile_width" \in cap_request.model_fields_set
    /\ cap_request.tile_width = DefaultTileSize
    /\ cap.effective_tile_width = VISION_AI_PRESETS[gemini].tile_width
    /\ cap.effective_tile_width # DefaultTileSize

\* what does hold: a field whose value is not the request's default is the
\* value used, and every other field takes the preset's value, supplied or not
C26_NonDefaultFieldsTakePrecedence ==
    PresetApplied =>
        \A f \in TileFields :
            EffectiveField(f) =
                IF cap_request[f] # FieldDefaults[f] THEN cap_request[f]
                ELSE VISION_AI_PRESETS[Val(cap.applied_preset)][f]

----------------------------------------------------------------------------
(* Properties of calculate_tile_grid alone and inside capture_tiled *)

GridCalled == ~IsNone(grid_args) /\ pc = "done"

\* the effective arguments pass every test of _validate_dimensions
PassesValidation ==
    LET e == EffectiveArgs(grid_args)
    IN /\ e.page_width >= 1 /\ e.page_height >= 1
       /\ e.viewport_width >= 1 /\ e.viewport_height >= 1
       /\ e.overlap >= 0
       /\ e.overlap < e.viewport_width /\ e.overlap < e.viewport_height

StepX == EffectiveArgs(grid_args).viewport_width - EffectiveArgs(grid_args).overlap

StepY == EffectiveArgs(grid_args).viewport_height - EffectiveArgs(grid_args).overlap

\* tile i + 1 is one step to the right of tile i, or starts the row one step
\* below it
Advances(i) ==
    \/ /\ GridTiles[i + 1].y = GridTiles[i].y
       /\ GridTiles[i + 1].x = GridTiles[i].x + StepX
    \/ /\ GridTiles[i + 1].y = GridTiles[i].y + StepY
       /\ GridTiles[i + 1].x = 0

\* capture_tiled has passed its grid to calculate_per_tile_wait
WaitCalculated == ~IsNone(cap_request) /\ cap.pc = "tiles"

CaptureReturned == ~IsNone(cap_request) /\ IsReturned(cap_outcome)

\* C27: for every input that passes validation calculate_tile_grid returns,
\* every iteration advances the scan by a step of at least 1 inside the page
\* (so there are at most page_width * page_height of them), and the grid has
\* at least one tile; the tile count capture_tiled passes to
\* calculate_per_tile_wait is never 0 and total_tiles of a response is at
\* least 1.
C27_GridTerminatesWithATile ==
    /\ (GridCalled /\ PassesValidation) => IsReturned(grid_result)
    /\ (GridCalled /\ IsReturned(grid_result)) =>
          /\ StepX >= 1 /\ StepY >= 1
          /\ Len(GridTiles) >= 1
          /\ GridTiles[1].x = 0 /\ GridTiles[1].y = 0
          /\ \A i \in 1..(Len(GridTiles) - 1) : Advances(i)
          /\ \A i \in 1..Len(GridTiles) :
                /\ GridTiles[i].x < EffectiveArgs(grid_args).page_width
                /\ GridTiles[i].y < EffectiveArgs(grid_args).page_height
          /\ Len(GridTiles) <= EffectiveArgs(grid_args).page_width
                                 * EffectiveArgs(grid_args).page_height
    /\ WaitCalculated => Len(cap.tile_bounds_list) >= 1
    /\ CaptureReturned => cap_outcome.value.tile_config.total_tiles >= 1

\* a step of 1 on a page 6 high: the loop runs for every row 0..5
C27_Witness ==
    /\ GridCalled /\ PassesValidation
    /\ StepY = 1
    /\ EffectiveArgs(grid_args).page_height = 6
    /\ EffectiveArgs(grid_args).viewport_height = 1
    /\ Len(GridTiles) >= 6

\* capture_tiled shared a wait out over several tiles and returned them
C27_WitnessCapture ==
    /\ CaptureReturned
    /\ cap_outcome.value.tile_config.total_tiles >= 2
    /\ Len(cap.tile_bounds_list) = cap_outcome.value.tile_config.total_tiles
    /\ cap_request.wait_for_timeout > 0

GridRows == {t.row : t \in TileSet}

GridColumns == {t.column : t \in TileSet}

\* the tiles of a grid are numbered 0, 1, ... in list order
NumberedInOrder(tiles) == \A i \in 1..Len(tiles) : tiles[i].index = i - 1

\* C28: a returned grid is a complete rectangle in row-major order: the tile
\* at position i has index i, every row has the same columns 0..C-1, the
\* tile of row r and column c has index r*C + c, x = c*(viewport_width -
\* overlap) and y = r*(viewport_height - overlap), no two tiles share a row
\* and a column, and the number of tiles is rows * columns, which is what
\* TileConfig.grid of a capture_tiled response reports.
C28_GridIsRowMajorRectangle ==
    /\ GridReturned =>
          LET columns == Cardinality(GridColumns)
              rows == Cardinality(GridRows)
          IN /\ NumberedInOrder(GridTiles)
             /\ GridRows = 0..(rows - 1)
             /\ \A r \in GridRows : {t.column : t \in TilesOfRow(r)} = 0..(columns - 1)
             /\ \A t \in TileSet :
                   /\ t.index = t.row * columns + t.column
                   /\ t.x = t.column * StepX
                   /\ t.y = t.row * StepY
             /\ \A i, j \in 1..Len(GridTiles) :
                   (GridTiles[i].row = GridTiles[j].row
                      /\ GridTiles[i].column = GridTiles[j].column) => i = j
             /\ Len(GridTiles) = rows * columns
    /\ CaptureReturned =>
          LET config == cap_outcome.value.tile_config
              tiles == cap_outcome.value.tiles
          IN /\ config.total_tiles = config.grid.rows * config.grid.columns
             /\ Len(tiles) = config.total_tiles
             /\ NumberedInOrder(tiles)
             /\ \A i \in 1..Len(tiles) :
                   /\ tiles[i].row < config.grid.rows
                   /\ tiles[i].column < config.grid.columns
                   /\ tiles[i].index = tiles[i].row * config.grid.columns + tiles[i].column

\* a grid of at least three rows and two columns with a positive overlap
C28_Witness ==
    /\ GridReturned
    /\ Cardinality(GridRows) >= 3
    /\ Cardinality(GridColumns) >= 2
    /\ EffectiveArgs(grid_args).overlap > 0
    /\ Len(GridTiles) = Cardinality(GridRows) * Cardinality(GridColumns)

\* a response of capture_tiled with two rows of two tiles
C28_WitnessCapture ==
    /\ CaptureReturned
    /\ cap_outcome.value.tile_config.grid = [rows |-> 2, columns |-> 2]
    /\ cap_outcome.value.tile_config.total_tiles = 4

----------------------------------------------------------------------------
(* Properties of the browser contexts of capture and capture_tiled *)

\* capture has returned or raised
ShotDone == ~IsNone(shot_request) /\ pc = "done"

\* capture_tiled has returned or raised
TiledDone == ~IsNone(cap_request) /\ pc = "done"

\* C29: when capture or capture_tiled returns or raises, the browser context
\* the call opened is closed, whichever await failed.
C29_ContextClosedWhenCallEnds ==
    /\ ShotDone => shot.context # "open"
    /\ TiledDone => ~cap.context_open

\* cookie injection raised: capture has raised and its context is still open
C29_Witness ==
    /\ ShotDone
    /\ shot_outcome = Raised("Error", "add_cookies")
    /\ shot.context = "open"

\* what does hold: capture_tiled always closes its context, and capture
\* closes it when it returns and when an await after "yield page" raises
C29_ContextClosedUnlessSetupRaises ==
    /\ TiledDone => ~cap.context_open
    /\ (ShotDone /\ shot.context = "open") =>
          /\ IsRaised(shot_outcome)
          /\ shot_outcome.what \in {"route", "add_cookies", "new_page", "origin_goto",
                                    "inject_localStorage", "inject_sessionStorage"}
    /\ (ShotDone /\ IsReturned(shot_outcome)) => shot.context = "closed"

\* the target navigation raised and the context was closed on the way out
C29_WitnessClosedAfterFailure ==
    /\ ShotDone
    /\ shot_outcome = Raised("Error", "goto")
    /\ shot.context = "closed"

\* capture_tiled rejected the tile count and closed its context
C29_WitnessTiledRejected ==
    /\ TiledDone
    /\ CaptureRejected
    /\ ~cap.context_open
    /\ \E i \in DOMAIN page_log : page_log[i].op = "close"

----------------------------------------------------------------------------
(* Properties of ScreenshotService.initialize under concurrent calls *)

ServiceCalled == tasks # <<>>

\* initialize() has returned to task t
InitializeReturned(t) == tasks[t].pc \in {"use", "returned"}

TasksAt(positions) == {t \in Tasks : tasks[t].pc \in positions}

\* C30: however the calls interleave, Playwright is started and
\* Chromium is launched at most once, and the service holds a browser
\* whenever initialize() has returned.
C30_StartedAndLaunchedAtMostOnce ==
    ServiceCalled =>
        /\ playwright_starts <= 1
        /\ chromium_launches <= 1
        /\ \A t \in Tasks : InitializeReturned(t) => ~IsNone(_browser)

\* what does hold: however the calls interleave, at most one call is
\* starting Playwright or launching Chromium at a time, Chromium is launched
\* at most once, Playwright is started at most once unless a start or a
\* launch raised (each call that raised allows one more start by a later
\* call), and the service holds a browser whenever initialize() has returned.
C30_AtMostOnceUnlessACallRaised ==
    ServiceCalled =>
        /\ Cardinality(TasksAt({"starting", "launching"})) <= 1
        /\ chromium_launches <= 1
        /\ playwright_starts <= 1 + Cardinality(TasksAt({"raised"}))
        /\ TasksAt({"raised"}) = {} => playwright_starts <= 1
        /\ \A t \in Tasks : InitializeReturned(t) => ~IsNone(_browser)

\* one call is launching Chromium while two others, which saw no browser,
\* wait for the lock
C30_Witness ==
    /\ ServiceCalled
    /\ Cardinality(TasksAt({"launching"})) = 1
    /\ Cardinality(TasksAt({"acquire"})) >= 2
    /\ playwright_starts = 1

\* every call is over, none raised, and two of them came through
\* _get_page or capture_tiled: one Playwright and one browser
C30_WitnessAllReturned ==
    /\ ServiceCalled
    /\ TasksAt({"returned"}) = Tasks
    /\ playwright_starts = 1 /\ chromium_launches = 1
    /\ Cardinality({t \in Tasks : tasks[t].op # "initialize"}) >= 2

\* a launch raised and the next call started Playwright again
C30_WitnessSecondStart ==
    /\ ServiceCalled
    /\ playwright_starts = 2
    /\ chromium_launches = 1
    /\ Cardinality(TasksAt({"raised"})) = 1
    /\ _playwright = Some(2)

=============================================================================
